---- MODULE Spec2Model ----
(***************************************************************************)
(* A model of sqlite-riir, a read-only reader of the SQLite 3 file format: *)
(* the varint codec (src/src/lib.rs), the record decoder                   *)
(* (src/src/record.rs), the pager and its page cache (src/src/pager.rs),   *)
(* the B-tree page decoders (src/src/page.rs, src/src/page/) and the       *)
(* table scan (src/src/table_iter.rs).                                     *)
(*                                                                         *)
(* A byte is an integer in 0..255 and a slice is a sequence of bytes.      *)
(* TLC's integers are 32 bits wide, so a 64-bit integer (i64 / u64) is the *)
(* set of the positions of its one-bits, a subset of 0..63, bit 63 being   *)
(* the sign; a fixed-width column value is kept as the big-endian bytes of *)
(* its native Rust type.                                                   *)
(***************************************************************************)
EXTENDS Integers, Sequences, FiniteSets, TLC

VARIABLES
    vin,        \* varint codec: the buffer handed to parse_varint
    vout,       \* varint codec: <<>> before the call, <<result>> after it
    rin,        \* record decoder: the payload handed to Record::parse
    rrec,       \* record decoder: <<>> before Record::parse, <<result>> after
    tit,        \* record decoder: the iterator type_iter() returned
    vit,        \* record decoder: the iterator value_iter() returned
    disk,       \* the database file: what it was built from
    file,       \* the database file: its bytes
    fpos,       \* the database file: the cursor of the open handle
    opened,     \* Pager::new: "no" before the call, then "ok" or the error
    pager_header, \* Pager.header: page_size_exp and page_count
    page_cache, \* PageCache.entries: page number -> the leaked buffer
    last,       \* the latest read_page call: argument, I/O issued, result
    stack,      \* TableIter.stack: frames [page_num, idx_in_page]
    yielded,    \* the rows TableIter::next has returned, in order
    peak,       \* the most frames TableIter.stack has held at a time
    arms,       \* the arms next has taken on internal pages so far
    status,     \* TableIter: "idle", "live", "done" (None), "panic", or
                \* "unknown" (TableIter::new returned its Err)
    table_name, \* the table name handed to TableIter::new, as bytes
    reader,     \* the iterator of table_root_page_indices_by_name
    stmt,       \* the statement handed to execute_statement
    exec,       \* execute_statement: how far it is, the callback's calls
    cpage,      \* a page buffer handed to Page::new: what it was built from
    citer       \* Page::new on that buffer and the CellIter of its cells()

varintVars == <<vin, vout>>
recordVars == <<rin, rrec, tit, vit>>
pagerVars == <<disk, file, fpos, opened, pager_header, page_cache, last>>
iterVars ==
    <<stack, yielded, peak, arms, status, table_name, reader, stmt, exec>>
cellVars == <<cpage, citer>>
vars ==
    <<vin, vout, rin, rrec, tit, vit,
      disk, file, fpos, opened, pager_header, page_cache, last,
      stack, yielded, peak, arms, status, table_name, reader, stmt, exec,
      cpage, citer>>

---------------------------------------------------------------------------
(* Bytes and machine integers                                              *)

Byte == 0..255

Pow2(n) == 2 ^ n

\* The one-bits of a byte.
Bits(b) == {i \in 0..7 : (b \div Pow2(i)) % 2 = 1}

\* x << s on a 64-bit integer: bits shifted past bit 63 are lost.
Shl(bits, s) == {i + s : i \in bits} \cap 0..63

\* The value of a 64-bit integer all of whose one-bits are below bit 31.
RECURSIVE SumBits(_)
SumBits(bits) ==
    IF bits = {} THEN 0
    ELSE LET i == CHOOSE j \in bits : TRUE
         IN  Pow2(i) + SumBits(bits \ {i})

\* More than the length of any buffer of the model; stands for every
\* length or index of 2^20 or more.
Huge == 1048576

\* A 64-bit integer used as a length (`as usize`, usize::try_from of a
\* non-negative value): exact below 2^20, Huge from there on.
AsLen(v) == IF v \subseteq 0..19 THEN SumBits(v) ELSE Huge

\* The elements of a sequence.
Range(seq) == {seq[i] : i \in DOMAIN seq}

\* The sequences over S of length at most n.
SeqsUpTo(S, n) == UNION {[1..k -> S] : k \in 0..n}

\* The sequences of `ss` one after the other.
RECURSIVE Concat(_)
Concat(ss) == IF ss = <<>> THEN <<>> ELSE Head(ss) \o Concat(Tail(ss))

Reverse(s) == [i \in 1..Len(s) |-> s[Len(s) + 1 - i]]

\* n zero bytes.
Zeros(n) == [i \in 1..n |-> 0]

\* buffer[n..]
Drop(buffer, n) == SubSeq(buffer, n + 1, Len(buffer))

\* buffer[..n]
Take(buffer, n) == SubSeq(buffer, 1, n)

---------------------------------------------------------------------------
(* The varint codec: src/src/lib.rs                                        *)

\* parse_varint's loop, entered with `acc` and `length`. The result is
\* [ok, value, rest]: Ok(value) with the buffer advanced to `rest`, or Err
\* with the buffer untouched.
RECURSIVE parse_varint_loop(_, _, _)
parse_varint_loop(buffer, acc, length) ==
    IF length >= Len(buffer)
    THEN [ok |-> FALSE, value |-> {}, rest |-> buffer]
    ELSE LET new_byte == buffer[length + 1]
         IN  IF length = 8
             THEN [ok    |-> TRUE,
                   value |-> acc \cup Shl(Bits(new_byte), 56),
                   rest  |-> Drop(buffer, length)]
             ELSE LET acc2 == acc \cup Shl(Bits(new_byte % 128), length * 7)
                      length2 == length + 1
                  IN  IF new_byte < 128
                      THEN [ok    |-> TRUE,
                            value |-> acc2,
                            rest  |-> Drop(buffer, length2)]
                      ELSE parse_varint_loop(buffer, acc2, length2)

parse_varint(buffer) == parse_varint_loop(buffer, {}, 0)

---------------------------------------------------------------------------
(* The record decoder: src/src/record.rs                                   *)

\* A ColumnType is [tag, len]; len is the byte length of a Blob or String
\* and 0 for every other type.
ColumnType(tag, len) == [tag |-> tag, len |-> len]

\* ColumnType::from_numeric. n is a 64-bit integer; for n outside 0..11 the
\* length is (n as u64 - 12 - rem as u64) / 2 in wrapping arithmetic.
ColumnType_from_numeric(n) ==
    IF n \subseteq 0..19
    THEN LET k == SumBits(n)
         IN  CASE k = 0 -> ColumnType("Null", 0)
               [] k = 1 -> ColumnType("I8", 0)
               [] k = 2 -> ColumnType("I16", 0)
               [] k = 3 -> ColumnType("I24", 0)
               [] k = 4 -> ColumnType("I32", 0)
               [] k = 5 -> ColumnType("I48", 0)
               [] k = 6 -> ColumnType("I64", 0)
               [] k = 7 -> ColumnType("F64", 0)
               [] k = 8 -> ColumnType("Zero", 0)
               [] k = 9 -> ColumnType("One", 0)
               [] k \in {10, 11} -> ColumnType("SQLiteReserved", 0)
               [] OTHER ->
                    LET rem == k % 2
                        length == (k - 12 - rem) \div 2
                    IN  IF rem = 0 THEN ColumnType("Blob", length)
                                   ELSE ColumnType("String", length)
    ELSE IF 0 \in n THEN ColumnType("String", Huge)
                    ELSE ColumnType("Blob", Huge)

\* A Value is [tag, v]: v holds the big-endian bytes of the variant's
\* native integer (i8, i16, i32, i64, f64), the bytes of a Blob or String,
\* and nothing for the variants without data.
Value(tag, v) == [tag |-> tag, v |-> v]

\* An arm of parse_for_ty that takes a fixed chunk: split_first_chunk::<n>
\* fails on a buffer shorter than n; the chunk is stored behind `pad`
\* leading zero bytes of the native integer.
Value_parse_chunk(tag, n, pad, buffer) ==
    IF Len(buffer) < n
    THEN [ok |-> FALSE, value |-> Value("Null", <<>>), rest |-> buffer]
    ELSE [ok    |-> TRUE,
          value |-> Value(tag, Zeros(pad) \o Take(buffer, n)),
          rest  |-> Drop(buffer, n)]

\* An arm of parse_for_ty that takes no bytes.
Value_parse_unit(tag, buffer) ==
    [ok |-> TRUE, value |-> Value(tag, <<>>), rest |-> buffer]

\* The String arm of parse_for_ty built as a Blob: a mutant.
Value_parse_for_ty_StringAsBlob(ty, buffer) ==
    CASE ty.tag = "Null" -> Value_parse_unit("Null", buffer)
      [] ty.tag = "I8"   -> Value_parse_chunk("I8", 1, 0, buffer)
      [] ty.tag = "I16"  -> Value_parse_chunk("I16", 2, 0, buffer)
      [] ty.tag = "I24"  -> Value_parse_chunk("I24", 3, 1, buffer)
      [] ty.tag = "I32"  -> Value_parse_chunk("I32", 4, 0, buffer)
      [] ty.tag = "I48"  -> Value_parse_chunk("I48", 6, 2, buffer)
      [] ty.tag = "I64"  -> Value_parse_chunk("I64", 8, 0, buffer)
      [] ty.tag = "F64"  -> Value_parse_chunk("F64", 8, 0, buffer)
      [] ty.tag = "Zero" -> Value_parse_unit("Zero", buffer)
      [] ty.tag = "One"  -> Value_parse_unit("One", buffer)
      [] ty.tag = "Blob" -> Value_parse_chunk("Blob", ty.len, 0, buffer)
      [] ty.tag = "String" -> Value_parse_chunk("Blob", ty.len, 0, buffer)
      [] ty.tag = "SQLiteReserved" -> Value_parse_unit("SQLiteReserved", buffer)

\* Value::parse_for_ty: [ok, value, rest]. I24 is i32::from_be_bytes of
\* [0, h0, h1, h2] and I48 is i64::from_be_bytes of [0, 0, h0, .., h5];
\* Blob and String split the buffer at `len` (split_at_checked).
Value_parse_for_ty(ty, buffer) ==
    CASE ty.tag = "Null" -> Value_parse_unit("Null", buffer)
      [] ty.tag = "I8"   -> Value_parse_chunk("I8", 1, 0, buffer)
      [] ty.tag = "I16"  -> Value_parse_chunk("I16", 2, 0, buffer)
      [] ty.tag = "I24"  -> Value_parse_chunk("I24", 3, 1, buffer)
      [] ty.tag = "I32"  -> Value_parse_chunk("I32", 4, 0, buffer)
      [] ty.tag = "I48"  -> Value_parse_chunk("I48", 6, 2, buffer)
      [] ty.tag = "I64"  -> Value_parse_chunk("I64", 8, 0, buffer)
      [] ty.tag = "F64"  -> Value_parse_chunk("F64", 8, 0, buffer)
      [] ty.tag = "Zero" -> Value_parse_unit("Zero", buffer)
      [] ty.tag = "One"  -> Value_parse_unit("One", buffer)
      [] ty.tag = "Blob" -> Value_parse_chunk("Blob", ty.len, 0, buffer)
      [] ty.tag = "String" -> Value_parse_chunk("String", ty.len, 0, buffer)
      [] ty.tag = "SQLiteReserved" -> Value_parse_unit("SQLiteReserved", buffer)

\* Value::ty
Value_ty(value) ==
    IF value.tag \in {"Blob", "String"}
    THEN ColumnType(value.tag, Len(value.v))
    ELSE ColumnType(value.tag, 0)

\* Record::parse: [ok, header, body]. The header length is read from a
\* copy of the slice, so `header` still starts with that varint.
Record_parse(payload) ==
    LET r == parse_varint(payload)
        header_len == AsLen(r.value)
    IN  IF r.ok /\ 63 \notin r.value /\ header_len <= Len(payload)
        THEN [ok     |-> TRUE,
              header |-> Take(payload, header_len),
              body   |-> Drop(payload, header_len)]
        ELSE [ok |-> FALSE, header |-> <<>>, body |-> <<>>]

\* HeaderTypesIter::new: skips the leading varint; a failed parse_varint is
\* ignored and leaves the slice as it was.
HeaderTypesIter_new(header) ==
    LET r == parse_varint(header)
    IN  IF r.ok THEN r.rest ELSE header

\* HeaderTypesIter::next on the iterator's slice: [kind, ty, header] with
\* kind "none" (None), "some" (Some(ty), the slice advanced) or "panic"
\* (the unwrap of a failed parse_varint).
HeaderTypesIter_next(header) ==
    IF header = <<>>
    THEN [kind |-> "none", ty |-> ColumnType("Null", 0), header |-> header]
    ELSE LET r == parse_varint(header)
         IN  IF r.ok
             THEN [kind   |-> "some",
                   ty     |-> ColumnType_from_numeric(r.value),
                   header |-> r.rest]
             ELSE [kind |-> "panic", ty |-> ColumnType("Null", 0),
                   header |-> header]

\* RecordValueIter::next on [header, body]: [kind, value, header, body],
\* kind as above, or "panic_body" for the expect("Failed to parse body")
\* of a failed parse_for_ty.
RecordValueIter_next(header, body) ==
    LET t == HeaderTypesIter_next(header)
        none == Value("Null", <<>>)
    IN  IF t.kind # "some"
        THEN [kind |-> t.kind, value |-> none, header |-> header, body |-> body]
        ELSE LET p == Value_parse_for_ty(t.ty, body)
             IN  IF p.ok
                 THEN [kind |-> "some", value |-> p.value,
                       header |-> t.header, body |-> p.rest]
                 ELSE [kind |-> "panic_body", value |-> none,
                       header |-> header, body |-> body]

\* Draining value_iter() of a record (collect): [kind, values] with kind
\* "done" or the panic that ended it.
RECURSIVE value_iter_collect(_, _, _)
value_iter_collect(header, body, acc) ==
    LET n == RecordValueIter_next(header, body)
    IN  IF n.kind = "some"
        THEN value_iter_collect(n.header, n.body, Append(acc, n.value))
        ELSE [kind   |-> IF n.kind = "none" THEN "done" ELSE n.kind,
              values |-> acc]

---------------------------------------------------------------------------
(* The file format's varint (spec 4.1): the reference the decoder is held  *)
(* to. Up to eight bytes give 7 bits each, most significant first; a ninth *)
(* byte gives all 8 bits, the eight before it 7 bits each above them.      *)

\* The number of bytes of the varint that starts `buffer` (0: truncated).
RECURSIVE FormatVarintLenFrom(_, _)
FormatVarintLenFrom(buffer, k) ==
    IF k > Len(buffer) THEN 0
    ELSE IF k = 9 \/ buffer[k] < 128 THEN k
    ELSE FormatVarintLenFrom(buffer, k + 1)

FormatVarintLen(buffer) == FormatVarintLenFrom(buffer, 1)

FormatVarintValue(buffer) ==
    LET n == FormatVarintLen(buffer)
    IN  IF n = 9
        THEN UNION {Shl(Bits(buffer[j] % 128), 8 + 7 * (8 - j)) : j \in 1..8}
                 \cup Bits(buffer[9])
        ELSE UNION {Shl(Bits(buffer[j] % 128), 7 * (n - j)) : j \in 1..n}

---------------------------------------------------------------------------
(* The file format's record body (spec 3, the type-code table): the        *)
(* reference the record decoder is held to.                                *)

\* The body bytes a column of type ty takes.
FormatWidth(ty) ==
    CASE ty.tag = "I8"  -> 1
      [] ty.tag = "I16" -> 2
      [] ty.tag = "I24" -> 3
      [] ty.tag = "I32" -> 4
      [] ty.tag = "I48" -> 6
      [] ty.tag \in {"I64", "F64"} -> 8
      [] ty.tag \in {"Blob", "String"} -> ty.len
      [] OTHER -> 0

\* The body bytes the first n of `types` take together.
RECURSIVE FormatWidthSum(_, _)
FormatWidthSum(types, n) ==
    IF n = 0 THEN 0
    ELSE FormatWidthSum(types, n - 1) + FormatWidth(types[n])

\* A big-endian two's-complement integer widened to `width` bytes.
SignExtend(bytes, width) ==
    [i \in 1..(width - Len(bytes)) |-> IF bytes[1] >= 128 THEN 255 ELSE 0]
        \o bytes

---------------------------------------------------------------------------
(* Database files. A file is laid out as spec 3 describes the format: a    *)
(* 100-byte database header at the start of page 1, then one B-tree page   *)
(* per page number, each with its page header, its cell-pointer array and  *)
(* its cells packed at the end of the page. The files the specifications   *)
(* start from are built from a description of the table tree they hold:    *)
(* disk = [tree, root, rows, extra, short].                                *)

\* The format's page size of the files of the model (the smallest the
\* format allows) and the bytes of the header's page-size word.
FilePageSize == Pow2(9)

\* n as a big-endian unsigned integer of `width` bytes.
BigEndian(n, width) ==
    [i \in 1..width |-> (n \div Pow2(8 * (width - i))) % 256]

\* The format's varint of n, for -256 <= n < 2^14: one or two bytes, and
\* nine bytes for a negative n (64-bit two's complement).
EncodeVarint(n) ==
    IF n < 0 THEN [i \in 1..8 |-> 255] \o <<256 + n>>
    ELSE IF n < 128 THEN <<n>>
    ELSE <<128 + (n \div 128), n % 128>>

\* "SQLite format 3\0"
FormatMagic ==
    <<83, 81, 76, 105, 116, 101, 32, 102, 111, 114, 109, 97, 116, 32, 51, 0>>

\* The 100-byte database header: magic, page size at 16, page count at 28,
\* text encoding (1 = UTF-8) at 56.
FormatDatabaseHeader(page_size_word, page_count) ==
    FormatMagic \o BigEndian(page_size_word, 2) \o Zeros(10)
        \o BigEndian(page_count, 4) \o Zeros(24) \o BigEndian(1, 4)
        \o Zeros(40)

\* A record: the header length, the type codes (as encoded), the body.
FormatRecord(types, body) == EncodeVarint(1 + Len(types)) \o types \o body

\* A leaf cell: payload length, row-id, payload.
FormatLeafCell(row_id, payload) ==
    EncodeVarint(Len(payload)) \o EncodeVarint(row_id) \o payload

\* An internal cell: left child page number, key.
FormatInternalCell(left_child, key) ==
    BigEndian(left_child, 4) \o EncodeVarint(key)

\* The offset in the page of cell i: cell 1 ends at the end of the page
\* and each later cell lies in front of the one before it.
RECURSIVE FormatCellPointer(_, _)
FormatCellPointer(cells, i) ==
    (IF i = 1 THEN FilePageSize ELSE FormatCellPointer(cells, i - 1))
        - Len(cells[i])

\* A B-tree page of FilePageSize bytes: `prefix` (the database header on
\* page 1), the 8-byte page header, `right` (the rightmost child of an
\* internal page, else empty), the cell pointers, free space, the cells.
FormatPage(prefix, type_byte, right, cells) ==
    LET n == Len(cells)
        content == Concat(Reverse(cells))
        start == FilePageSize - Len(content)
        head == prefix
                \o <<type_byte, 0, 0>> \o BigEndian(n, 2)
                \o BigEndian(start, 2) \o <<0>> \o right
                \o Concat([i \in 1..n |->
                              BigEndian(FormatCellPointer(cells, i), 2)])
    IN  head \o Zeros(start - Len(head)) \o content

\* A table tree is [n, kids]: a leaf of n rows (kids empty), or an internal
\* page over the subtrees `kids`, the last of them its rightmost child.
TreePages(t) ==
    LET RECURSIVE P(_)
        P(u) == IF u.kids = <<>> THEN 1
                ELSE 1 + P(Head(u.kids))
                       + (IF Len(u.kids) = 1 THEN 0
                          ELSE P([n |-> 0, kids |-> Tail(u.kids)]) - 1)
    IN  P(t)

TreeRows(t) ==
    LET RECURSIVE R(_)
        R(u) == IF u.kids = <<>> THEN u.n
                ELSE R(Head(u.kids))
                       + (IF Len(u.kids) = 1 THEN 0
                          ELSE R([n |-> 0, kids |-> Tail(u.kids)]))
    IN  R(t)

\* The pages of tree t laid out from page number `page` on, the root first
\* and the subtrees after it in order, its rows numbered from `row` on in
\* key order. A page is [leaf, rows, cells, right]: the row-ids of a leaf;
\* the [child, key] cells and the rightmost child of an internal page, the
\* key of a cell being the last row-id below its child.
RECURSIVE TreeLayout(_, _, _)
TreeLayout(t, page, row) ==
    IF t.kids = <<>>
    THEN <<[leaf  |-> TRUE,
            rows  |-> [i \in 1..t.n |-> row + i - 1],
            cells |-> <<>>,
            right |-> 0]>>
    ELSE LET k == Len(t.kids)
             before(i) == [n |-> 0, kids |-> SubSeq(t.kids, 1, i - 1)]
             kidPage(i) == page + (IF i = 1 THEN 1 ELSE TreePages(before(i)))
             kidRow(i) == row + (IF i = 1 THEN 0 ELSE TreeRows(before(i)))
         IN  <<[leaf  |-> FALSE,
                rows  |-> <<>>,
                cells |-> [i \in 1..(k - 1) |->
                              [child |-> kidPage(i),
                               key   |-> kidRow(i) + TreeRows(t.kids[i]) - 1]],
                right |-> kidPage(k)]>>
             \o Concat([i \in 1..k |->
                           TreeLayout(t.kids[i], kidPage(i), kidRow(i))])

\* The rows of the files, by kind. "schema": the five columns of a schema
\* row ("table", name, table name, root page as int8, SQL text) naming a
\* table rooted at `root_page`. "small": (null, int24, "hello"). "wide": one
\* 60-byte string, whose type code 133 takes a two-byte varint. "mixed":
\* schema rows, the odd ones naming a table and the even ones an index
\* ("index", "i<n>", the table before it, root page, SQL text). "longsql":
\* schema rows naming tables whose SQL text is 60 bytes long.
RowKinds == {"schema", "small", "wide"}

SchemaRowKinds == {"schema", "mixed", "longsql"}

\* Whether row `row_id` of a file of schema rows names a table.
RowNamesTable(kind, row_id) == kind # "mixed" \/ row_id % 2 = 1

RowPayload(kind, row_id, root_page) ==
    CASE kind = "schema" ->
            FormatRecord(
                <<23, 17, 17, 1, 47>>,
                <<116, 97, 98, 108, 101>>
                    \o <<116, 48 + row_id>> \o <<116, 48 + row_id>>
                    \o <<root_page>>
                    \o <<67, 82, 69, 65, 84, 69, 32, 84, 65, 66, 76, 69, 32,
                         116, 40, 97, 41>>)
      [] kind = "small" ->
            FormatRecord(<<0, 3, 23>>,
                         <<0, 0, row_id % 256>> \o <<104, 101, 108, 108, 111>>)
      [] kind = "wide" ->
            FormatRecord(EncodeVarint(133), [i \in 1..60 |-> 120])
      [] kind = "mixed" ->
            FormatRecord(
                <<23, 17, 17, 1, 47>>,
                (IF RowNamesTable(kind, row_id)
                 THEN <<116, 97, 98, 108, 101>>
                          \o <<116, 48 + row_id>> \o <<116, 48 + row_id>>
                 ELSE <<105, 110, 100, 101, 120>>
                          \o <<105, 48 + row_id>> \o <<116, 47 + row_id>>)
                    \o <<root_page>>
                    \o <<67, 82, 69, 65, 84, 69, 32, 84, 65, 66, 76, 69, 32,
                         116, 40, 97, 41>>)
      [] kind = "longsql" ->
            FormatRecord(
                <<23, 17, 17, 1>> \o EncodeVarint(133),
                <<116, 97, 98, 108, 101>>
                    \o <<116, 48 + row_id>> \o <<116, 48 + row_id>>
                    \o <<root_page>>
                    \o [i \in 1..60 |-> 120])

\* The first row-id of a table: the small rows run over the step from
\* one-byte to two-byte row-id varints.
FirstRow(kind) == IF kind = "small" THEN 126 ELSE 1

\* The tree's pages as laid out in the file, page 1 first.
DiskLayout(dk) == TreeLayout(dk.tree, 1, FirstRow(dk.rows))

\* The pages after the tree: for schema rows the (empty leaf) root page of
\* each table named, then with extra = "index" a page of another type
\* (0x0A, an index leaf), which the reader does not decode, or with extra
\* = "text" a page that holds no B-tree page at all: its first byte is
\* 0x53, the rest of its first 100 bytes zero, and the bytes of an empty
\* leaf's page header lie at its offset 100.
DiskUserPages(dk) ==
    IF dk.rows \in SchemaRowKinds THEN TreeRows(dk.tree) ELSE 0

DiskPages(dk) ==
    TreePages(dk.tree) + DiskUserPages(dk)
        + (IF dk.extra # "none" THEN 1 ELSE 0)

\* The page count the header states: the pages the file holds plus
\* count_off, which is 1 for a truncated file, -1 for a file that grew
\* after its header was written, else 0.
DiskPageCount(dk) == DiskPages(dk) + dk.count_off

\* Page p of the tree, as bytes.
FormatTreePage(dk, p) ==
    LET d == DiskLayout(dk)[p]
        first == FirstRow(dk.rows)
        prefix == IF p = 1
                  THEN FormatDatabaseHeader(FilePageSize, DiskPageCount(dk))
                  ELSE <<>>
    IN  IF d.leaf
        THEN FormatPage(prefix, 13, <<>>,
                 [i \in 1..Len(d.rows) |->
                     FormatLeafCell(
                         d.rows[i],
                         RowPayload(dk.rows, d.rows[i],
                             TreePages(dk.tree) + d.rows[i] - first + 1))])
        ELSE FormatPage(prefix, 5, BigEndian(d.right, 4),
                 [i \in 1..Len(d.cells) |->
                     FormatInternalCell(d.cells[i].child, d.cells[i].key)])

\* The bytes of the file.
FileOf(dk) ==
    Concat([p \in 1..TreePages(dk.tree) |-> FormatTreePage(dk, p)])
        \o Concat([p \in 1..DiskUserPages(dk) |->
                      FormatPage(<<>>, 13, <<>>, <<>>)])
        \o (IF dk.extra = "index" THEN FormatPage(<<>>, 10, <<>>, <<>>)
            ELSE IF dk.extra = "text"
            THEN FormatPage(<<83>> \o Zeros(99), 13,
                            <<>>, <<>>)
            ELSE <<>>)

\* Bounds of the trees: pages per tree and cells per page.
MaxPages == 4
MaxCells == 2

\* The trees of exactly n pages, and the sequences of k trees of n pages
\* in all.
RECURSIVE Trees(_), Forests(_, _)
Trees(n) ==
    IF n = 1
    THEN {[n |-> c, kids |-> <<>>] : c \in 0..MaxCells}
    ELSE {[n |-> 0, kids |-> f] :
             f \in UNION {Forests(n - 1, k) : k \in 1..(MaxCells + 1)}}

Forests(n, k) ==
    IF n < k THEN {}
    ELSE IF k = 1 THEN {<<t>> : t \in Trees(n)}
    ELSE UNION {{<<t>> \o f : t \in Trees(m), f \in Forests(n - m, k - 1)}
                : m \in 1..(n - k + 1)}

AllTrees == UNION {Trees(n) : n \in 1..MaxPages}

---------------------------------------------------------------------------
(* The pager (pager.rs)                                                    *)

\* u16::from_be_bytes / u32::from_be_bytes of the bytes of a slice.
RECURSIVE from_be_bytes(_)
from_be_bytes(bytes) ==
    IF bytes = <<>> THEN 0
    ELSE from_be_bytes(Take(bytes, Len(bytes) - 1)) * 256 + bytes[Len(bytes)]

is_power_of_two(n) == \E e \in 0..15 : Pow2(e) = n

ilog2(n) == CHOOSE e \in 0..15 : Pow2(e) <= n /\ n < Pow2(e + 1)

DATABASE_HEADER_SIZE == 100

\* An Err of DatabaseHeader::parse, by the check that failed.
DatabaseHeader_bad(why) ==
    [ok |-> FALSE, why |-> why, page_size_exp |-> 0, page_count |-> 0]

\* DatabaseHeader::parse without the ensure on the magic string.
DatabaseHeader_parse_NoMagic(buffer) ==
    LET page_size_raw == from_be_bytes(SubSeq(buffer, 17, 18))
        text_encoding == from_be_bytes(SubSeq(buffer, 57, 60))
    IN  IF page_size_raw # 0 /\ ~is_power_of_two(page_size_raw)
        THEN DatabaseHeader_bad("page_size")
        ELSE IF text_encoding \notin {1, 2, 3}
        THEN DatabaseHeader_bad("text_encoding")
        ELSE [ok            |-> TRUE,
              why           |-> "",
              page_size_exp |-> IF page_size_raw = 0 THEN 16
                                ELSE ilog2(page_size_raw),
              page_count    |-> from_be_bytes(SubSeq(buffer, 29, 32))]

\* DatabaseHeader::parse: [ok, why, page_size_exp, page_count]; why names
\* the check that failed: "magic", "page_size" or "text_encoding".
DatabaseHeader_parse(buffer) ==
    LET page_size_raw == from_be_bytes(SubSeq(buffer, 17, 18))
        text_encoding == from_be_bytes(SubSeq(buffer, 57, 60))
    IN  IF Take(buffer, 16) # FormatMagic THEN DatabaseHeader_bad("magic")
        ELSE IF page_size_raw # 0 /\ ~is_power_of_two(page_size_raw)
        THEN DatabaseHeader_bad("page_size")
        ELSE IF text_encoding \notin {1, 2, 3}
        THEN DatabaseHeader_bad("text_encoding")
        ELSE [ok            |-> TRUE,
              why           |-> "",
              page_size_exp |-> IF page_size_raw = 0 THEN 16
                                ELSE ilog2(page_size_raw),
              page_count    |-> from_be_bytes(SubSeq(buffer, 29, 32))]

\* DatabaseHeader::page_size
DatabaseHeader_page_size(h) == Pow2(h.page_size_exp)

\* Read::read_exact on the file handle at cursor `pos`: fills n bytes, or
\* fails at the end of the file.
File_read_exact(bytes, pos, n) ==
    IF pos + n <= Len(bytes)
    THEN [ok |-> TRUE, buf |-> SubSeq(bytes, pos + 1, pos + n), pos |-> pos + n]
    ELSE [ok |-> FALSE, buf |-> <<>>,
          pos |-> IF pos > Len(bytes) THEN pos ELSE Len(bytes)]

\* The loader closure of read_page, with the seek at page_size * page_idx
\* (the page after the one asked for).
Pager_loader_SeekNext(bytes, pos, h, buf, page_idx) ==
    IF page_idx = 0
    THEN [ok |-> FALSE, buf |-> buf, pos |-> pos, io |-> <<>>]
    ELSE LET offset == DatabaseHeader_page_size(h) * page_idx
             r == File_read_exact(bytes, offset, Len(buf))
         IN  [ok |-> r.ok, buf |-> r.buf, pos |-> r.pos,
              io |-> <<[op |-> "seek", at |-> offset],
                       [op |-> "read", len |-> Len(buf)]>>]

\* The loader closure of read_page: [ok, buf, pos, io], io being the calls
\* made on the file. Page 0 fails at checked_sub, before any I/O.
Pager_loader(bytes, pos, h, buf, page_idx) ==
    IF page_idx = 0
    THEN [ok |-> FALSE, buf |-> buf, pos |-> pos, io |-> <<>>]
    ELSE LET offset == DatabaseHeader_page_size(h) * (page_idx - 1)
             r == File_read_exact(bytes, offset, Len(buf))
         IN  [ok |-> r.ok, buf |-> r.buf, pos |-> r.pos,
              io |-> <<[op |-> "seek", at |-> offset],
                       [op |-> "read", len |-> Len(buf)]>>]

\* PageCache::get_or_load, which always loads and replaces the entry.
PageCache_get_or_load_NoHit(entries, page_size, bytes, pos, h, page_idx) ==
    LET l == Pager_loader(bytes, pos, h, Zeros(page_size), page_idx)
    IN  [ok      |-> l.ok,
         hit     |-> FALSE,
         buffer  |-> IF l.ok THEN Take(l.buf, page_size) ELSE <<>>,
         entries |-> IF l.ok
                     THEN [k \in DOMAIN entries \cup {page_idx} |->
                              IF k = page_idx THEN l.buf ELSE entries[k]]
                     ELSE entries,
         pos     |-> l.pos,
         io      |-> l.io]

\* PageCache::get_or_load, which inserts the buffer before it runs the
\* loader on it.
PageCache_get_or_load_InsertFirst(entries, page_size, bytes, pos, h, page_idx) ==
    IF page_idx \in DOMAIN entries
    THEN [ok |-> TRUE, hit |-> TRUE,
          buffer |-> Take(entries[page_idx], page_size),
          entries |-> entries, pos |-> pos, io |-> <<>>]
    ELSE LET l == Pager_loader(bytes, pos, h, Zeros(page_size), page_idx)
         IN  [ok      |-> l.ok,
              hit     |-> FALSE,
              buffer  |-> IF l.ok THEN Take(l.buf, page_size) ELSE <<>>,
              entries |-> [k \in DOMAIN entries \cup {page_idx} |->
                              IF k = page_idx THEN l.buf ELSE entries[k]],
              pos     |-> l.pos,
              io      |-> l.io]

\* PageCache::get_or_load: [ok, hit, buffer, entries, pos, io]. An occupied
\* slot is returned as it is; a vacant one is filled by the loader and
\* inserted only when the loader succeeded.
PageCache_get_or_load(entries, page_size, bytes, pos, h, page_idx) ==
    IF page_idx \in DOMAIN entries
    THEN [ok |-> TRUE, hit |-> TRUE,
          buffer |-> Take(entries[page_idx], page_size),
          entries |-> entries, pos |-> pos, io |-> <<>>]
    ELSE LET l == Pager_loader(bytes, pos, h, Zeros(page_size), page_idx)
         IN  [ok      |-> l.ok,
              hit     |-> FALSE,
              buffer  |-> IF l.ok THEN Take(l.buf, page_size) ELSE <<>>,
              entries |-> IF l.ok
                          THEN [k \in DOMAIN entries \cup {page_idx} |->
                                   IF k = page_idx THEN l.buf ELSE entries[k]]
                          ELSE entries,
              pos     |-> l.pos,
              io      |-> l.io]

---------------------------------------------------------------------------
(* Pages (page.rs, page/btree_table_leaf.rs, page/btree_table_internal.rs) *)

\* The header byte of a table-internal page. page.rs as it stands knows
\* the leaf byte only, while table_iter.rs and btree_table_internal.rs use
\* PageType::BTreeTableInternal and ParsedPage::BTreeTableInternal: the
\* byte and the arm for them are taken from the format (section 3).
TableInternalHeaderByte == 5

\* PageType::from_header_byte
PageType_from_header_byte(byte) ==
    IF byte = 13 THEN "BTreeTableLeaf"
    ELSE IF byte = TableInternalHeaderByte THEN "BTreeTableInternal"
    ELSE "error"

BTREE_PAGE_HEADER_SIZE == 8

BadPage(kind) ==
    [kind |-> kind, cell_count |-> 0, cell_content_offset |-> 0,
     rightmost_pointer |-> 0, cell_pointers |-> <<>>, cell_contents |-> <<>>]

\* BTreePageHeader::parse: [ok, page_type, cell_count, cell_content_offset,
\* total_len]. A buffer that starts with 'S' is the first page, whose page
\* header follows the database header.
BTreePageHeader_parse(buffer) ==
    LET at == IF buffer[1] = 83 THEN DATABASE_HEADER_SIZE ELSE 0
        bad == [ok |-> FALSE, page_type |-> "error", cell_count |-> 0,
                cell_content_offset |-> 0, total_len |-> 0]
    IN  IF Len(buffer) < at + BTREE_PAGE_HEADER_SIZE THEN bad
        ELSE LET arr == SubSeq(buffer, at + 1, at + BTREE_PAGE_HEADER_SIZE)
                 page_type == PageType_from_header_byte(arr[1])
                 raw == from_be_bytes(SubSeq(arr, 6, 7))
             IN  IF page_type = "error" THEN bad
                 ELSE [ok                  |-> TRUE,
                       page_type           |-> page_type,
                       cell_count          |-> from_be_bytes(SubSeq(arr, 4, 5)),
                       cell_content_offset |-> IF raw = 0 THEN 65536 ELSE raw,
                       total_len           |-> at + BTREE_PAGE_HEADER_SIZE]

\* BTreeTableLeafPage::new: the parsed page, kind "leaf", or kind "err".
BTreeTableLeafPage_new(contents) ==
    LET h == BTreePageHeader_parse(contents)
    IN  IF ~h.ok THEN BadPage("err")
        ELSE LET body == Drop(contents, h.total_len)
             IN  IF h.page_type # "BTreeTableLeaf" THEN BadPage("err")
                 ELSE IF h.cell_count * 2 > Len(body) THEN BadPage("err")
                 ELSE IF h.cell_content_offset > Len(contents)
                 THEN BadPage("err")
                 ELSE [kind                |-> "leaf",
                       cell_count          |-> h.cell_count,
                       cell_content_offset |-> h.cell_content_offset,
                       rightmost_pointer   |-> 0,
                       cell_pointers       |-> Take(body, h.cell_count * 2),
                       cell_contents       |->
                           Drop(contents, h.cell_content_offset)]

\* BTreeTableInternalPage::new: the parsed page, kind "internal", kind
\* "err", or kind "panic" where the rightmost pointer is indexed past the
\* end of the buffer.
BTreeTableInternalPage_new(contents) ==
    LET h == BTreePageHeader_parse(contents)
    IN  IF ~h.ok THEN BadPage("err")
        ELSE IF Len(contents) < h.total_len + 4 THEN BadPage("panic")
        ELSE LET body == Drop(contents, h.total_len + 4)
             IN  IF h.page_type # "BTreeTableInternal" THEN BadPage("err")
                 ELSE IF h.cell_count * 2 > Len(body) THEN BadPage("err")
                 ELSE IF h.cell_content_offset > Len(contents)
                 THEN BadPage("err")
                 ELSE [kind                |-> "internal",
                       cell_count          |-> h.cell_count,
                       cell_content_offset |-> h.cell_content_offset,
                       rightmost_pointer   |->
                           from_be_bytes(SubSeq(contents, h.total_len + 1,
                                                h.total_len + 4)),
                       cell_pointers       |-> Take(body, h.cell_count * 2),
                       cell_contents       |->
                           Drop(contents, h.cell_content_offset)]

\* The arm of parse_checked for PageType::BTreeTableInternal.
ParsedPage_BTreeTableInternal(contents) == BTreeTableInternalPage_new(contents)

\* Page::parse_checked, which Page::new runs to validate the buffer and
\* Page::parse runs again (and unwraps) to hand out the parsed page.
Page_parse_checked(contents) ==
    LET h == BTreePageHeader_parse(contents)
    IN  IF ~h.ok THEN BadPage("err")
        ELSE IF h.page_type = "BTreeTableLeaf"
        THEN BTreeTableLeafPage_new(contents)
        ELSE ParsedPage_BTreeTableInternal(contents)

\* Pager::read_page without the ensure on page_idx.
Pager_read_page_NoEnsure(bytes, pos, h, entries, page_idx) ==
    LET g == PageCache_get_or_load(entries, DatabaseHeader_page_size(h),
                                   bytes, pos, h, page_idx)
        pg == Page_parse_checked(g.buffer)
    IN  IF ~g.ok
        THEN [kind |-> "err", why |-> "load", hit |-> FALSE, io |-> g.io,
              buffer |-> <<>>, page |-> BadPage("err"),
              entries |-> g.entries, pos |-> g.pos]
        ELSE [kind |-> IF pg.kind \in {"err", "panic"} THEN pg.kind ELSE "ok",
              why |-> IF pg.kind \in {"err", "panic"} THEN "page" ELSE "",
              hit |-> g.hit, io |-> g.io,
              buffer |-> IF pg.kind \in {"err", "panic"} THEN <<>>
                         ELSE g.buffer,
              page |-> pg, entries |-> g.entries, pos |-> g.pos]

\* Pager::read_page: [kind, why, hit, io, buffer, page, entries, pos].
\* kind is "ok" (Ok(Page) over `buffer`, which parses as `page`), "err"
\* (why: "bounds" from the ensure, "load" from the cache's loader, "page"
\* from Page::new) or "panic"; entries and pos are the cache and the file
\* cursor after the call, io the calls made on the file.
Pager_read_page(bytes, pos, h, entries, page_idx) ==
    IF page_idx > h.page_count
    THEN [kind |-> "err", why |-> "bounds", hit |-> FALSE, io |-> <<>>,
          buffer |-> <<>>, page |-> BadPage("err"),
          entries |-> entries, pos |-> pos]
    ELSE LET g == PageCache_get_or_load(entries, DatabaseHeader_page_size(h),
                                        bytes, pos, h, page_idx)
             pg == Page_parse_checked(g.buffer)
         IN  IF ~g.ok
             THEN [kind |-> "err", why |-> "load", hit |-> FALSE, io |-> g.io,
                   buffer |-> <<>>, page |-> BadPage("err"),
                   entries |-> g.entries, pos |-> g.pos]
             ELSE [kind |-> IF pg.kind \in {"err", "panic"} THEN pg.kind
                            ELSE "ok",
                   why |-> IF pg.kind \in {"err", "panic"} THEN "page" ELSE "",
                   hit |-> g.hit, io |-> g.io,
                   buffer |-> IF pg.kind \in {"err", "panic"} THEN <<>>
                              ELSE g.buffer,
                   page |-> pg, entries |-> g.entries, pos |-> g.pos]

---------------------------------------------------------------------------
(* Cells and their iterators                                               *)

NoCell ==
    [row_id |-> {}, header |-> <<>>, body |-> <<>>,
     left_child_page |-> 0, key |-> {}]

\* btree_table_leaf::Cell::new: [ok, cell]
BTreeTableLeaf_Cell_new(length, contents) ==
    LET r == parse_varint(contents)
        rec == Record_parse(Take(r.rest, length))
    IN  IF ~r.ok \/ length > Len(r.rest) \/ ~rec.ok
        THEN [ok |-> FALSE, cell |-> NoCell]
        ELSE [ok |-> TRUE,
              cell |-> [NoCell EXCEPT !.row_id = r.value,
                                      !.header = rec.header,
                                      !.body = rec.body]]

\* btree_table_leaf::parse_cell
BTreeTableLeaf_parse_cell(buffer) ==
    LET l == parse_varint(buffer)
    IN  IF ~l.ok THEN [ok |-> FALSE, cell |-> NoCell]
        ELSE BTreeTableLeaf_Cell_new(AsLen(l.value), l.rest)

\* btree_table_internal::Cell::parse
BTreeTableInternal_Cell_parse(contents) ==
    LET k == parse_varint(Drop(contents, 4))
    IN  IF Len(contents) < 4 \/ ~k.ok
        THEN [ok |-> FALSE, cell |-> NoCell]
        ELSE [ok |-> TRUE,
              cell |-> [NoCell EXCEPT
                           !.left_child_page = from_be_bytes(Take(contents, 4)),
                           !.key = k.value]]

\* The cell decoded from cell_contents[pointer..]: [kind, cell], kind
\* "some", or "panic" where the slice starts past the end or the cell does
\* not parse (the expect).
CellIter_decode_at(page, pointer) ==
    IF pointer > Len(page.cell_contents)
    THEN [kind |-> "panic", cell |-> NoCell]
    ELSE LET from == Drop(page.cell_contents, pointer)
             c == IF page.kind = "leaf"
                  THEN BTreeTableLeaf_parse_cell(from)
                  ELSE BTreeTableInternal_Cell_parse(from)
         IN  [kind |-> IF c.ok THEN "some" ELSE "panic", cell |-> c.cell]

\* CellIter::next with a subtraction that stops at 0 instead of
\* overflowing.
CellIter_decode_in_Saturating(page, idx, overflow_checks) ==
    LET raw == from_be_bytes(SubSeq(page.cell_pointers,
                                    idx * 2 + 1, idx * 2 + 2))
        offset == page.cell_content_offset % 65536
    IN  CellIter_decode_at(page, IF raw < offset THEN 0 ELSE raw - offset)

\* The cell that the idx-th call of CellIter::next decodes (idx from 0, idx
\* below the cell count). The pointer is the stored offset less the content
\* offset, both u16 (`as u16` keeps the low 16 bits of the content offset):
\* a stored offset below it overflows the subtraction, which panics in a
\* build with overflow checks and wraps modulo 2^16 in one without.
CellIter_decode_in(page, idx, overflow_checks) ==
    LET raw == from_be_bytes(SubSeq(page.cell_pointers,
                                    idx * 2 + 1, idx * 2 + 2))
        offset == page.cell_content_offset % 65536
    IN  IF overflow_checks /\ raw < offset
        THEN [kind |-> "panic", cell |-> NoCell]
        ELSE CellIter_decode_at(page, (raw + 65536 - offset) % 65536)

CellIter_decode(page, idx) == CellIter_decode_in(page, idx, FALSE)

\* CellIter::next at index idx in either build.
CellIter_next_in(page, idx, overflow_checks) ==
    IF idx * 2 >= Len(page.cell_pointers)
    THEN [kind |-> "none", cell |-> NoCell]
    ELSE CellIter_decode_in(page, idx, overflow_checks)

\* CellIter::next at index idx: None at the end of the pointer array.
CellIter_next(page, idx) ==
    IF idx * 2 >= Len(page.cell_pointers)
    THEN [kind |-> "none", cell |-> NoCell]
    ELSE CellIter_decode(page, idx)

\* cells().nth(n): Iterator::nth calls next n + 1 times from index 0, so
\* every cell in front of the n-th is decoded too, and the first None or
\* panic ends it.
RECURSIVE cells_nth_from(_, _, _)
cells_nth_from(page, idx, n) ==
    LET c == CellIter_next(page, idx)
    IN  IF c.kind # "some" \/ n = 0 THEN c
        ELSE cells_nth_from(page, idx + 1, n - 1)

cells_nth(page, n) == cells_nth_from(page, 0, n)

---------------------------------------------------------------------------
(* The row iterator (table_iter.rs)                                        *)

\* What the match on the parsed page comes to: kind "some" (a row is
\* returned), "recurse" (the body ends in self.next()) or "panic", with the
\* stack it leaves.
TableIter_out(kind, stk, row) == [kind |-> kind, stack |-> stk, row |-> row]

\* The row of a leaf cell: its values collected, or the panic of the record
\* decoder.
TableIter_collect(stk, v) ==
    IF v.kind = "done" THEN TableIter_out("some", stk, v.values)
    ELSE TableIter_out("panic", stk, <<>>)

TableIter_left_of(stepped, popped, before) ==
    IF before.kind = "some"
    THEN TableIter_out("recurse",
                       Append(stepped,
                              [page_num    |-> before.cell.left_child_page,
                               idx_in_page |-> 0]),
                       <<>>)
    ELSE TableIter_out("recurse", popped, <<>>)

\* The match of TableIter::next where an internal page sends the scan to
\* its rightmost child first and to the cells' left children after it.
TableIter_next_match_RightFirst(stk, page, cell) ==
    LET n == Len(stk)
        top_frame == stk[n]
        stepped == [stk EXCEPT ![n].idx_in_page = @ + 1]
        popped == Take(stk, n - 1)
    IN  IF cell.kind = "panic" THEN TableIter_out("panic", stk, <<>>)
        ELSE IF page.kind = "internal"
        THEN IF top_frame.idx_in_page = 0
             THEN TableIter_out(
                      "recurse",
                      Append(stepped,
                             [page_num    |-> page.rightmost_pointer,
                              idx_in_page |-> 0]),
                      <<>>)
             ELSE TableIter_left_of(
                      stepped, popped,
                      cells_nth(page, top_frame.idx_in_page - 1))
        ELSE IF cell.kind = "none"
             THEN TableIter_out("recurse", popped, <<>>)
             ELSE TableIter_collect(
                      stepped,
                      value_iter_collect(HeaderTypesIter_new(cell.cell.header),
                                         cell.cell.body, <<>>))

\* The match of TableIter::next where the frame of the rightmost child is
\* pushed on top of its parent's instead of taking its place.
TableIter_next_match_PushRightmost(stk, page, cell) ==
    LET n == Len(stk)
        top_frame == stk[n]
        stepped == [stk EXCEPT ![n].idx_in_page = @ + 1]
        popped == Take(stk, n - 1)
    IN  IF cell.kind = "panic" THEN TableIter_out("panic", stk, <<>>)
        ELSE IF page.kind = "internal"
        THEN IF cell.kind = "some"
             THEN TableIter_out(
                      "recurse",
                      Append(stepped,
                             [page_num    |-> cell.cell.left_child_page,
                              idx_in_page |-> 0]),
                      <<>>)
             ELSE IF top_frame.idx_in_page = page.cell_count
             THEN TableIter_out(
                      "recurse",
                      Append(stepped,
                             [page_num    |-> page.rightmost_pointer,
                              idx_in_page |-> 0]),
                      <<>>)
             ELSE TableIter_out("recurse", popped, <<>>)
        ELSE IF cell.kind = "none"
             THEN TableIter_out("recurse", popped, <<>>)
             ELSE TableIter_collect(
                      stepped,
                      value_iter_collect(HeaderTypesIter_new(cell.cell.header),
                                         cell.cell.body, <<>>))

\* The match on page.parse() in TableIter::next, the top frame being on
\* `page` and `cell` being cells().nth(idx_in_page) of it.
TableIter_next_match(stk, page, cell) ==
    LET n == Len(stk)
        top_frame == stk[n]
        stepped == [stk EXCEPT ![n].idx_in_page = @ + 1]
        popped == Take(stk, n - 1)
    IN  IF cell.kind = "panic" THEN TableIter_out("panic", stk, <<>>)
        ELSE IF page.kind = "internal"
        THEN IF cell.kind = "some"
             THEN TableIter_out(
                      "recurse",
                      Append(stepped,
                             [page_num    |-> cell.cell.left_child_page,
                              idx_in_page |-> 0]),
                      <<>>)
             ELSE IF top_frame.idx_in_page = page.cell_count
             THEN TableIter_out(
                      "recurse",
                      [stk EXCEPT ![n] =
                          [page_num    |-> page.rightmost_pointer,
                           idx_in_page |-> 0]],
                      <<>>)
             ELSE TableIter_out("recurse", popped, <<>>)
        ELSE IF cell.kind = "none"
             THEN TableIter_out("recurse", popped, <<>>)
             ELSE TableIter_collect(
                      stepped,
                      value_iter_collect(HeaderTypesIter_new(cell.cell.header),
                                         cell.cell.body, <<>>))

\* TableIter::next once read_page has returned `rp`: the panic of the
\* expect, or the match on the page.
TableIter_next_page(stk, rp) ==
    IF rp.kind # "ok" THEN TableIter_out("panic", stk, <<>>)
    ELSE TableIter_next_match(
             stk, rp.page, cells_nth(rp.page, stk[Len(stk)].idx_in_page))

\* The record of a read_page(k) call that returned rp.
CallOf(k, rp) ==
    [k |-> k, kind |-> rp.kind, why |-> rp.why, hit |-> rp.hit, io |-> rp.io,
     buffer |-> rp.buffer]

\* The result of one activation: what the body came to (out), the leaf
\* cell `at` = <<page, index>> it was at, and the page cache, the file
\* cursor and the record of the read_page call it made.
TableIter_frame(top_frame, rp, out) ==
    [kind |-> out.kind, stack |-> out.stack, row |-> out.row,
     at |-> <<top_frame.page_num, top_frame.idx_in_page>>,
     entries |-> rp.entries, pos |-> rp.pos,
     call |-> CallOf(top_frame.page_num, rp)]

TableIter_next_read(stk, rp) ==
    TableIter_frame(stk[Len(stk)], rp, TableIter_next_page(stk, rp))

\* One activation of the body of TableIter::next on the stack `stk`:
\* [kind, stack, row, at, entries, pos, call], kind "none" when the stack
\* is empty (`prev` is the record of the latest read_page call).
TableIter_next_frame(bytes, pos, h, entries, stk, prev) ==
    IF Len(stk) = 0
    THEN [kind |-> "none", stack |-> stk, row |-> <<>>, at |-> <<0, 0>>,
          entries |-> entries, pos |-> pos, call |-> prev]
    ELSE TableIter_next_read(
             stk,
             Pager_read_page(bytes, pos, h, entries, stk[Len(stk)].page_num))

\* What a call of TableIter::next returns with: what its last activation
\* came to, the most frames the stack held during the call and the arms
\* its activations took on internal pages.
TableIter_returns(r, most, took) ==
    [kind |-> r.kind, stack |-> r.stack, row |-> r.row, at |-> r.at,
     entries |-> r.entries, pos |-> r.pos, call |-> r.call, peak |-> most,
     arms |-> took]

\* The arm that an activation on a stack of n frames took, r being what it
\* came to: on an internal page "left" (the left child of a cell was
\* pushed), "rightmost" (the top frame was replaced) or "pop" (the top
\* frame was removed); none on a leaf.
TableIter_arm(r, n) ==
    IF r.kind # "recurse" \/ r.call.kind # "ok" THEN {}
    ELSE IF Page_parse_checked(r.call.buffer).kind # "internal" THEN {}
    ELSE IF Len(r.stack) > n THEN {"left"}
    ELSE IF Len(r.stack) = n THEN {"rightmost"}
    ELSE {"pop"}

Max2(a, b) == IF a >= b THEN a ELSE b

\* TableIter::next: the body, and again for as long as it ends in
\* self.next(); r is what one activation came to, `most` the most frames
\* the stack held in the activations before.
RECURSIVE TableIter_next_from(_, _, _, _, _, _, _, _)
RECURSIVE TableIter_next_tail(_, _, _, _, _)
TableIter_next_tail(bytes, h, r, most, took) ==
    IF r.kind = "recurse"
    THEN TableIter_next_from(bytes, r.pos, h, r.entries, r.stack, r.call,
                             most, took)
    ELSE TableIter_returns(r, most, took)

TableIter_next_step(bytes, h, r, most, took, n) ==
    TableIter_next_tail(bytes, h, r, most, took \cup TableIter_arm(r, n))

TableIter_next_from(bytes, pos, h, entries, stk, prev, most, took) ==
    TableIter_next_step(
        bytes, h, TableIter_next_frame(bytes, pos, h, entries, stk, prev),
        Max2(most, Len(stk)), took, Len(stk))

TableIter_next(bytes, pos, h, entries, stk, prev) ==
    TableIter_next_from(bytes, pos, h, entries, stk, prev, 0, {})

---------------------------------------------------------------------------
(* The schema reader and the lookup of a table's root page (db.rs,         *)
(* table_iter.rs). Table names are the bytes of their text.                *)

\* "sqlite_schema", "sqlite_master", "table"
SqliteSchemaName ==
    <<115, 113, 108, 105, 116, 101, 95, 115, 99, 104, 101, 109, 97>>

SqliteMasterName ==
    <<115, 113, 108, 105, 116, 101, 95, 109, 97, 115, 116, 101, 114>>

TableWord == <<116, 97, 98, 108, 101>>

\* Value::as_str: the text of a String value, None for the other variants
\* and for bytes that are no UTF-8 (here: that are not ASCII).
Value_as_str(value) ==
    IF value.tag = "String" /\ \A i \in DOMAIN value.v : value.v[i] < 128
    THEN [some |-> TRUE, str |-> value.v]
    ELSE [some |-> FALSE, str |-> <<>>]

\* Value::as_usize: the number of a non-negative integer value, None for
\* a negative one and for the other variants.
Value_as_usize(value) ==
    CASE value.tag \in {"I8", "I16", "I24", "I32", "I48", "I64"} ->
            IF value.v[1] >= 128 THEN [some |-> FALSE, n |-> 0]
            ELSE [some |-> TRUE,
                  n |-> IF \A i \in 1..(Len(value.v) - 2) : value.v[i] = 0
                        THEN from_be_bytes(value.v) ELSE Huge]
      [] value.tag = "Zero" -> [some |-> TRUE, n |-> 0]
      [] value.tag = "One" -> [some |-> TRUE, n |-> 1]
      [] OTHER -> [some |-> FALSE, n |-> 0]

\* An entry of the schema reader, or None.
SchemaEntry(name, root) == [some |-> TRUE, name |-> name, root |-> root]
NoSchemaEntry == [some |-> FALSE, name |-> <<>>, root |-> 0]

\* The closure that table_root_page_indices_by_name hands to filter_map:
\* None unless the first column is the string "table" and the third and
\* fourth columns are there and are a string and a number.
schema_row_entry(cell) ==
    IF Len(cell) < 1 THEN NoSchemaEntry
    ELSE IF Value_as_str(cell[1]) # [some |-> TRUE, str |-> TableWord]
    THEN NoSchemaEntry
    ELSE IF Len(cell) < 3 \/ ~Value_as_str(cell[3]).some THEN NoSchemaEntry
    ELSE IF Len(cell) < 4 \/ ~Value_as_usize(cell[4]).some THEN NoSchemaEntry
    ELSE SchemaEntry(Value_as_str(cell[3]).str, Value_as_usize(cell[4]).n)

\* What a next() of the schema reader came to: kind "some" with the entry,
\* "none" or "panic"; `first` tells whether ("sqlite_schema", 1) is still
\* to come, stack is the stack of the TableIter inside.
SchemaIter_out(kind, entry, r) ==
    [kind |-> kind, entry |-> entry, first |-> FALSE, stack |-> r.stack,
     entries |-> r.entries, pos |-> r.pos, call |-> r.call]

\* FilterMap::next over the TableIter of the schema table: rows are taken
\* until the closure returns an entry for one; r is what the latest
\* TableIter::next came to.
RECURSIVE SchemaIter_rows(_, _, _)
SchemaIter_rows(bytes, h, r) ==
    IF r.kind # "some" THEN SchemaIter_out(r.kind, NoSchemaEntry, r)
    ELSE IF schema_row_entry(r.row).some
    THEN SchemaIter_out("some", schema_row_entry(r.row), r)
    ELSE SchemaIter_rows(
             bytes, h,
             TableIter_next(bytes, r.pos, h, r.entries, r.stack, r.call))

\* next() of the iterator table_root_page_indices_by_name returns: the
\* one-element array first, the filtered rows of the schema table after
\* it.
SchemaIter_next(bytes, pos, h, entries, first, stk, prev) ==
    IF first
    THEN [kind |-> "some", entry |-> SchemaEntry(SqliteSchemaName, 1),
          first |-> FALSE, stack |-> stk, entries |-> entries, pos |-> pos,
          call |-> prev]
    ELSE SchemaIter_rows(
             bytes, h, TableIter_next(bytes, pos, h, entries, stk, prev))

\* Iterator::find on the schema reader for the entry named `name`; r is
\* what the reader's latest next() came to.
RECURSIVE SchemaIter_find(_, _, _, _)
SchemaIter_find(bytes, h, name, r) ==
    IF r.kind # "some" \/ r.entry.name = name THEN r
    ELSE SchemaIter_find(
             bytes, h, name,
             SchemaIter_next(bytes, r.pos, h, r.entries, r.first, r.stack,
                             r.call))

\* TableIter::new once the root page is settled: Ok with a one-frame
\* stack, Err for a name that find did not come by, or the panic of the
\* scan of the schema table.
TableIter_new_found(r) ==
    [kind |-> CASE r.kind = "some" -> "ok"
                [] r.kind = "none" -> "err"
                [] OTHER -> "panic",
     stack |-> IF r.kind = "some"
               THEN <<[page_num |-> r.entry.root, idx_in_page |-> 0]>>
               ELSE <<>>,
     entries |-> r.entries, pos |-> r.pos, call |-> r.call]

\* TableIter::new: [kind, stack, entries, pos, call].
TableIter_new(bytes, pos, h, entries, name, prev) ==
    IF name \in {SqliteSchemaName, SqliteMasterName}
    THEN [kind |-> "ok", stack |-> <<[page_num |-> 1, idx_in_page |-> 0]>>,
          entries |-> entries, pos |-> pos, call |-> prev]
    ELSE TableIter_new_found(
             SchemaIter_find(
                 bytes, h, name,
                 SchemaIter_next(bytes, pos, h, entries, TRUE,
                                 <<[page_num |-> 1, idx_in_page |-> 0]>>,
                                 prev)))

---------------------------------------------------------------------------
(* Statements (db.rs). A statement is the syntax tree the SQL parser       *)
(* hands over, as far as execute_statement looks at it and a little        *)
(* further: the fields of Select, the ORDER BY and LIMIT of the Query      *)
(* around it, and the tables of FROM. An Option field is TRUE when it is   *)
(* Some, a Vec field is a sequence.                                        *)

\* The Option fields and the Vec fields of Select that execute_statement
\* wants None and empty.
SelectOptionFields ==
    {"distinct", "top", "into", "prewhere", "selection", "having",
     "qualify", "value_table_mode", "connect_by"}

SelectListFields ==
    {"lateral_views", "cluster_by", "distribute_by", "sort_by",
     "named_window"}

\* The Option fields (with_ordinality: the flag) and the Vec fields of a
\* table of FROM.
TableOptionFields == {"alias", "args", "version", "with_ordinality"}
TableListFields == {"joins", "with_hints", "partitions"}

\* `name` as a table of FROM with nothing else to it.
PlainTable(name) ==
    [relation |-> "Table", name |-> <<name>>,
     alias |-> FALSE, args |-> FALSE, version |-> FALSE,
     with_ordinality |-> FALSE,
     joins |-> <<>>, with_hints |-> <<>>, partitions |-> <<>>]

\* SELECT * FROM name
PlainSelect(name) ==
    [statement |-> "Query", body |-> "Select",
     order_by |-> <<>>, limit |-> FALSE,
     distinct |-> FALSE, top |-> FALSE, into |-> FALSE, prewhere |-> FALSE,
     selection |-> FALSE, having |-> FALSE, qualify |-> FALSE,
     value_table_mode |-> FALSE, connect_by |-> FALSE,
     group_by |-> <<>>,
     lateral_views |-> <<>>, cluster_by |-> <<>>, distribute_by |-> <<>>,
     sort_by |-> <<>>, named_window |-> <<>>,
     projection |-> <<"Wildcard">>,
     from |-> <<PlainTable(name)>>]

\* The Err of execute_statement on a statement it does not run, and its Ok
\* path with the table to scan.
Unimplemented(what) ==
    [ok |-> FALSE, error |-> what, table_name |-> <<>>]

\* execute_statement down to the for loop: the table to scan, or the
\* bail! it leaves by.
execute_statement_match(st) ==
    IF st.statement # "Query" THEN Unimplemented("Unimplemented command")
    ELSE IF st.body # "Select" THEN Unimplemented("Unimplemented command")
    ELSE IF \E f \in SelectOptionFields : st[f]
    THEN Unimplemented("Unimplemented SELECT arguments")
    ELSE IF ~(/\ Len(st.projection) = 1
              /\ \A f \in SelectListFields : st[f] = <<>>)
    THEN Unimplemented("Unimplemented SELECT arguments 2")
    ELSE IF st.projection[1] # "Wildcard"
    THEN Unimplemented("Unimplemented projection")
    ELSE IF \/ Len(st.from) # 1
            \/ st.from[1].relation # "Table"
            \/ \E f \in TableOptionFields : st.from[1][f]
    THEN Unimplemented("Unimplemented FROM target")
    ELSE IF \E f \in TableListFields : st.from[1][f] # <<>>
    THEN Unimplemented("Unimplemented FROM target")
    ELSE IF Len(st.from[1].name) # 1
    THEN Unimplemented("Unimplemented FROM target")
    ELSE [ok |-> TRUE, error |-> "", table_name |-> st.from[1].name[1]]

\* `callback(row)?` with the Err ignored.
execute_statement_callback_IgnoreErr(cb_ok) == TRUE

\* `callback(row)?`: whether the loop goes on after the callback returned
\* Ok (cb_ok) or an Err.
execute_statement_callback(cb_ok) == cb_ok

---------------------------------------------------------------------------
(* The parts of the state a specification leaves alone                     *)

\* An iterator of the record decoder: st is "none" (not created), "live",
\* "done" (next returned None), "panic" or "panic_body" (next panicked);
\* out is what next has yielded so far.
IterNone == [st |-> "none", header |-> <<>>, body |-> <<>>, out |-> <<>>]

RecordIdle ==
    /\ rin = <<>>
    /\ rrec = <<>>
    /\ tit = IterNone
    /\ vit = IterNone

VarintIdle ==
    /\ vin = <<>>
    /\ vout = <<>>

\* No database is open.
NoCall ==
    [k |-> 0, kind |-> "none", why |-> "", hit |-> FALSE, io |-> <<>>,
     buffer |-> <<>>]

PagerIdle ==
    /\ disk = <<>>
    /\ file = <<>>
    /\ fpos = 0
    /\ opened = "no"
    /\ pager_header = <<>>
    /\ page_cache = <<>>
    /\ last = NoCall

\* The schema reader: st is "none" (not created), "live", "done" (next
\* returned None) or "panic"; out is what next has yielded so far.
ReaderNone == [st |-> "none", first |-> FALSE, stack |-> <<>>, out |-> <<>>]

\* execute_statement: st is "none" (not called), "callback" (the callback
\* is running on the row it was handed last), "ok" (returned Ok), "err"
\* (returned the Err `error`) or "panic"; called holds the rows the
\* callback was invoked with, failed_at the number of the invocation that
\* returned an Err (0: none did).
ExecNone == [st |-> "none", error |-> "", called |-> <<>>, failed_at |-> 0]

\* The cell iterator of a page: st is "none" (Page::new not called), "err"
\* (Page::new returned its Err), "live" (cells() of the accepted page was
\* called), "done" (next returned None) or "panic"; out holds what the
\* calls of next came to, in order.
CellIterNone == [st |-> "none", idx |-> 0, out |-> <<>>]

CellIdle ==
    /\ cpage = <<>>
    /\ citer = CellIterNone

IterIdle ==
    /\ stack = <<>>
    /\ yielded = <<>>
    /\ peak = 0
    /\ arms = {}
    /\ status = "idle"
    /\ table_name = <<>>
    /\ reader = ReaderNone
    /\ stmt = <<>>
    /\ exec = ExecNone

---------------------------------------------------------------------------
(* Specification SpecPager: a pager is opened on a file and read_page is   *)
(* called with page numbers in and out of range, in any order, any number  *)
(* of times.                                                               *)

\* The bound of the files' trees, in pages.
MaxPagerPages == 2

\* The files: a table of small rows rooted at page 1, with or without a
\* page that is no table page behind it, and a header whose page count is
\* the file's, one more (the file is truncated) or one less.
PagerDisks ==
    {[tree |-> t, rows |-> "small", extra |-> x, count_off |-> c] :
        t \in UNION {Trees(n) : n \in 1..MaxPagerPages},
        x \in {"none", "index", "text"},
        c \in {-1, 0, 1}}

InitPager ==
    /\ disk \in PagerDisks
    /\ file = FileOf(disk)
    /\ fpos = 0
    /\ opened = "no"
    /\ pager_header = <<>>
    /\ page_cache = <<>>
    /\ last = NoCall
    /\ IterIdle
    /\ VarintIdle
    /\ RecordIdle
    /\ CellIdle

\* Pager::new once read_exact has returned r and DatabaseHeader::parse h:
\* Ok(Pager) with the header, or the error of the step that failed.
PagerNewReturns(r, h) ==
    /\ fpos' = r.pos
    /\ opened' = IF ~r.ok THEN "read" ELSE IF h.ok THEN "ok" ELSE h.why
    /\ pager_header' = IF r.ok /\ h.ok
                       THEN [page_size_exp |-> h.page_size_exp,
                             page_count    |-> h.page_count]
                       ELSE <<>>

\* Pager::new: reads the 100 bytes of the database header and parses
\* them.
PagerNew ==
    /\ opened = "no"
    /\ LET r == File_read_exact(file, fpos, DATABASE_HEADER_SIZE)
       IN  PagerNewReturns(r, DatabaseHeader_parse(r.buf))
    /\ UNCHANGED <<cellVars, disk, file, page_cache, last, iterVars, varintVars,
                   recordVars>>

\* pager.read_page(k)
ReadPage ==
    /\ opened = "ok"
    /\ status = "idle"
    /\ \E k \in 0..(DiskPages(disk) + 2) :
          LET r == Pager_read_page(file, fpos, pager_header, page_cache, k)
          IN  /\ page_cache' = r.entries
              /\ fpos' = r.pos
              /\ last' = [k |-> k, kind |-> r.kind, why |-> r.why,
                          hit |-> r.hit, io |-> r.io, buffer |-> r.buffer]
    /\ UNCHANGED <<cellVars, disk, file, opened, pager_header, iterVars, varintVars,
                   recordVars>>

NextPager == PagerNew \/ ReadPage

SpecPager == InitPager /\ [][NextPager]_vars

\* The bytes of page k of the file, by the format: those at offsets
\* [(k - 1) * page-size, k * page-size).
FilePageBytes(k) ==
    SubSeq(file, (k - 1) * FilePageSize + 1, k * FilePageSize)

\* C3: a read_page(k) made while page k is in the cache issues no seek and
\* no read, leaves the cache and the file cursor as they were and returns
\* the cached bytes; and no entry of the cache is ever changed or dropped,
\* whatever pages are read in between.
CachedPagesAreNotReadAgain ==
    [][ /\ \A k \in DOMAIN page_cache :
              k \in DOMAIN page_cache' /\ page_cache'[k] = page_cache[k]
        /\ last'.k \in DOMAIN page_cache =>
              /\ last'.hit
              /\ last'.io = <<>>
              /\ page_cache' = page_cache
              /\ fpos' = fpos
              /\ last'.kind = "ok" => last'.buffer = page_cache[last'.k]
      ]_<<last, page_cache, fpos>>

\* C3 (witness): a read_page answered from the cache, with another page
\* cached beside it.
CachedPagesAreNotReadAgainWitness ==
    /\ last.kind = "ok"
    /\ last.hit
    /\ last.io = <<>>
    /\ Cardinality(DOMAIN page_cache) >= 2

\* C4: every entry of the cache and every buffer read_page returns is
\* page-size long and holds the bytes of its page of the file, and a call
\* that touches the file seeks to (k - 1) * page-size and reads page-size
\* bytes.
PagesHoldTheFileBytes ==
    /\ \A k \in DOMAIN page_cache :
          /\ k >= 1 /\ k * FilePageSize <= Len(file)
          /\ Len(page_cache[k]) = FilePageSize
          /\ page_cache[k] = FilePageBytes(k)
    /\ last.kind = "ok" =>
          /\ last.k >= 1 /\ last.k * FilePageSize <= Len(file)
          /\ Len(last.buffer) = FilePageSize
          /\ last.buffer = FilePageBytes(last.k)
    /\ last.io # <<>> =>
          last.io = <<[op |-> "seek", at |-> (last.k - 1) * FilePageSize],
                      [op |-> "read", len |-> FilePageSize]>>

\* C4 (witness): a page behind the first one was loaded from the file.
PagesHoldTheFileBytesWitness ==
    /\ last.kind = "ok"
    /\ ~last.hit
    /\ last.k >= 2
    /\ last.io # <<>>
    /\ last.k \in DOMAIN page_cache

\* C5: read_page(0) and read_page(k) with k above the header's page count
\* return an error (and read and cache nothing), so that a call that
\* succeeds has 1 <= k <= page count.
PageNumbersOutOfRangeAreRejected ==
    last.kind # "none" =>
        /\ (last.k = 0 \/ last.k > DiskPageCount(disk)) =>
              /\ last.kind = "err"
              /\ last.io = <<>>
              /\ last.k \notin DOMAIN page_cache
        /\ last.kind = "ok" =>
              1 <= last.k /\ last.k <= DiskPageCount(disk)

\* C5 (witness): a page that the file holds, but that lies above the
\* header's page count, was asked for and refused.
PageNumbersOutOfRangeAreRejectedWitness ==
    /\ last.kind = "err"
    /\ last.k > DiskPageCount(disk)
    /\ last.k <= DiskPages(disk)

\* C24: a read_page call that fails before the load (page number above
\* the page count) or in it (page number 0, short read) leaves the cache
\* as it was, without an entry for that page number; and a read_page of
\* a page number in range that has no entry goes to the file, so that the
\* load is tried again after a failure.
FailedLoadsLeaveTheCacheAlone ==
    [][ /\ (last'.kind = "err" /\ last'.why \in {"bounds", "load"}) =>
              /\ page_cache' = page_cache
              /\ last'.k \notin DOMAIN page_cache'
              /\ ~last'.hit
        /\ (/\ last'.kind # "none"
            /\ last'.k \notin DOMAIN page_cache
            /\ 1 <= last'.k /\ last'.k <= DiskPageCount(disk)) =>
              /\ ~last'.hit
              /\ last'.io =
                     <<[op |-> "seek", at |-> (last'.k - 1) * FilePageSize],
                       [op |-> "read", len |-> FilePageSize]>>
      ]_<<last, page_cache, fpos>>

\* C24 (witness): a read_page that failed at a short read, another page
\* being in the cache.
FailedLoadsLeaveTheCacheAloneWitness ==
    /\ last.kind = "err"
    /\ last.why = "load"
    /\ last.io # <<>>
    /\ last.k \notin DOMAIN page_cache
    /\ page_cache # <<>>

\* The type byte of page k by the format: the byte at offset 100 of a
\* page that begins with the database header's magic string, at offset 0
\* of any other page.
FormatTypeByte(k) ==
    IF Take(FilePageBytes(k), Len(FormatMagic)) = FormatMagic
    THEN FilePageBytes(k)[DATABASE_HEADER_SIZE + 1]
    ELSE FilePageBytes(k)[1]

\* The kind of the view that Page::parse hands out over a buffer.
Page_parse_kind(buffer) == Page_parse_checked(buffer).kind

\* C11: a page that read_page loads is classified by its type byte, which
\* lies at offset 100 when the page begins with the magic string and at
\* offset 0 otherwise: 0x0D gives a table-leaf view, 0x05 a table-internal
\* view, and a page with any other type byte is rejected by Page::new.
PagesAreClassifiedByTypeByte ==
    (last.kind \in {"ok", "err"} /\ last.why \in {"", "page"}) =>
        /\ last.kind = "ok" =>
              \/ /\ FormatTypeByte(last.k) = 13
                 /\ Page_parse_kind(last.buffer) = "leaf"
              \/ /\ FormatTypeByte(last.k) = TableInternalHeaderByte
                 /\ Page_parse_kind(last.buffer) = "internal"
        /\ FormatTypeByte(last.k) \notin {13, TableInternalHeaderByte} =>
              /\ last.kind = "err"
              /\ last.why = "page"

---------------------------------------------------------------------------
(* Specification SpecOpen: a pager is opened on files whose database       *)
(* header holds any page-size word, a good or a damaged magic string and   *)
(* a known or unknown text encoding, and pages are read through it.        *)

\* The page-size words, text encodings and magic strings of the headers:
\* "first" has a wrong first byte, "last" a wrong last byte.
OpenWords == {0, 1, 256, 512, 520, 1024, 32768, 65535}
OpenEncodings == {0, 1, 3, 4}
OpenMagics == {"ok", "first", "last"}

\* The page-size words the format allows and the page size each stands
\* for: a power of two from 512 to 32768, or 0 for 65536.
FormatPageSizeWords == {0} \cup {Pow2(e) : e \in 9..15}
FormatPageSizeOf(word) == IF word = 0 THEN Pow2(16) ELSE word

FormatMagicOf(kind) ==
    IF kind = "ok" THEN FormatMagic
    ELSE IF kind = "first" THEN <<115>> \o Tail(FormatMagic)
    ELSE Take(FormatMagic, 15) \o <<32>>

\* The files: one page (an empty table leaf) of the size the header's
\* word stands for, or of 512 bytes under a header that the format does
\* not allow.
OpenDisks ==
    {[tree |-> [n |-> 0, kids |-> <<>>], rows |-> "small",
      extra |-> "none", count_off |-> 0,
      magic |-> m, word |-> w, enc |-> e] :
        m \in OpenMagics, w \in OpenWords, e \in OpenEncodings}

OpenFileSize(dk) ==
    IF dk.magic = "ok" /\ dk.enc \in {1, 2, 3}
          /\ dk.word \in FormatPageSizeWords
    THEN FormatPageSizeOf(dk.word)
    ELSE FilePageSize

OpenFileOf(dk) ==
    FormatMagicOf(dk.magic) \o BigEndian(dk.word, 2) \o Zeros(10)
        \o BigEndian(1, 4) \o Zeros(24) \o BigEndian(dk.enc, 4)
        \o Zeros(40)
        \o <<13, 0, 0, 0, 0>> \o BigEndian(OpenFileSize(dk) % Pow2(16), 2)
        \o <<0>> \o Zeros(OpenFileSize(dk) - 108)

InitOpen ==
    /\ disk \in OpenDisks
    /\ file = OpenFileOf(disk)
    /\ fpos = 0
    /\ opened = "no"
    /\ pager_header = <<>>
    /\ page_cache = <<>>
    /\ last = NoCall
    /\ IterIdle
    /\ VarintIdle
    /\ RecordIdle
    /\ CellIdle

NextOpen == PagerNew \/ ReadPage

SpecOpen == InitOpen /\ [][NextOpen]_vars

\* C12: a header whose page-size word is 0 opens with 65536-byte pages
\* (and pages are then read 65536 bytes at a time), a word that is a power
\* of two from 512 to 32768 opens with pages of that size, and under every
\* other word the open fails on the page size and no pager is built.
PageSizeWordDecidesTheOpen ==
    (opened # "no" /\ disk.magic = "ok" /\ disk.enc \in {1, 2, 3}) =>
        /\ IF disk.word \in FormatPageSizeWords
           THEN /\ opened = "ok"
                /\ DatabaseHeader_page_size(pager_header)
                       = FormatPageSizeOf(disk.word)
           ELSE /\ opened = "page_size"
                /\ pager_header = <<>>
        /\ last.io # <<>> =>
              last.io = <<[op |-> "seek",
                           at |-> (last.k - 1) * FormatPageSizeOf(disk.word)],
                          [op |-> "read",
                           len |-> FormatPageSizeOf(disk.word)]>>
        /\ last.kind = "ok" =>
              Len(last.buffer) = FormatPageSizeOf(disk.word)

---------------------------------------------------------------------------
(* Specification SpecScan: a database is opened on a file whose schema     *)
(* table is a B-tree of up to MaxPages pages and the schema table is       *)
(* scanned with TableIter.                                                 *)

\* The files: a tree in each of the row layouts, and the trees of small
\* rows once more in a file whose header counts one page less than the
\* tree has, so that the tree's last page lies out of the pager's range.
ScanDisks ==
    {[tree |-> t, rows |-> r, extra |-> "none", count_off |-> 0] :
        t \in AllTrees, r \in RowKinds}
    \cup {[tree |-> t, rows |-> "small", extra |-> "none", count_off |-> -1] :
             t \in AllTrees}

InitScan ==
    /\ disk \in ScanDisks
    /\ file = FileOf(disk)
    /\ fpos = 0
    /\ opened = "no"
    /\ pager_header = <<>>
    /\ page_cache = <<>>
    /\ last = NoCall
    /\ stack = <<>>
    /\ yielded = <<>>
    /\ peak = 0
    /\ arms = {}
    /\ status = "idle"
    /\ table_name = SqliteSchemaName
    /\ reader = ReaderNone
    /\ stmt = <<>>
    /\ exec = ExecNone
    /\ VarintIdle
    /\ RecordIdle
    /\ CellIdle

\* The state after a call of TableIter::new that came to r.
TableIterNewReturns(r) ==
    /\ stack' = r.stack
    /\ peak' = Len(r.stack)
    /\ arms' = {}
    /\ page_cache' = r.entries
    /\ fpos' = r.pos
    /\ last' = r.call
    /\ status' = CASE r.kind = "ok" -> "live"
                   [] r.kind = "err" -> "unknown"
                   [] OTHER -> "panic"

\* TableIter::new(db, table_name). (A schema reader borrows the database
\* for as long as it lives.)
TableIterNew ==
    /\ opened = "ok"
    /\ status = "idle"
    /\ reader.st = "none"
    /\ TableIterNewReturns(
           TableIter_new(file, fpos, pager_header, page_cache, table_name,
                         last))
    /\ UNCHANGED <<cellVars, disk, file, opened, pager_header, yielded, table_name,
                   reader, stmt, exec, varintVars, recordVars>>

\* The state after a call of TableIter::next that came to r.
TableIterReturns(r) ==
    /\ stack' = r.stack
    /\ peak' = Max2(peak, r.peak)
    /\ arms' = arms \cup r.arms
    /\ page_cache' = r.entries
    /\ fpos' = r.pos
    /\ last' = r.call
    /\ yielded' = IF r.kind = "some"
                  THEN Append(yielded, [page |-> r.at[1], idx |-> r.at[2],
                                        row |-> r.row])
                  ELSE yielded
    /\ status' = CASE r.kind = "some" -> "live"
                   [] r.kind = "none" -> "done"
                   [] OTHER -> "panic"

\* TableIter::next, also on an iterator that has returned None before.
TableIterNext ==
    /\ status \in {"live", "done"}
    /\ TableIterReturns(
           TableIter_next(file, fpos, pager_header, page_cache, stack, last))
    /\ UNCHANGED <<cellVars, disk, file, opened, pager_header, table_name, reader,
                   stmt, exec, varintVars, recordVars>>

NextScan == PagerNew \/ TableIterNew \/ TableIterNext

SpecScan == InitScan /\ [][NextScan]_vars

\* The leaf cells of the file's tree, as <<page, index>>, and the row-id
\* the file stores in one.
LeafCellsOf(dk) ==
    LET layout == DiskLayout(dk)
    IN  UNION {{<<p, i - 1>> : i \in 1..Len(layout[p].rows)} :
                  p \in {q \in DOMAIN layout : layout[q].leaf}}

StoredRowId(y) == DiskLayout(disk)[y.page].rows[y.idx + 1]

\* C1: the scan of a well-formed tree does not fail, and when next has
\* returned None it has returned every leaf cell of the tree exactly once.
ScanYieldsEveryLeafCellOnce ==
    disk.count_off = 0 =>
        /\ status # "panic"
        /\ status = "done" =>
              /\ {<<yielded[i].page, yielded[i].idx>> : i \in DOMAIN yielded}
                     = LeafCellsOf(disk)
              /\ Len(yielded) = Cardinality(LeafCellsOf(disk))

\* C2: the rows a scan returns are in ascending order of the row-ids the
\* file stores for them.
ScanYieldsAscendingRowIds ==
    \A i, j \in DOMAIN yielded :
        i < j => StoredRowId(yielded[i]) < StoredRowId(yielded[j])

\* C2 (witness): a finished scan that returned rows from under a cell's
\* left child and from under the rightmost child of the root.
ScanYieldsAscendingRowIdsWitness ==
    /\ status = "done"
    /\ Len(yielded) >= 3
    /\ DiskLayout(disk)[1].cells # <<>>
    /\ \E i, j \in DOMAIN yielded :
          i < j /\ yielded[i].page # yielded[j].page

\* C18: when a page cannot be read or a page or cell cannot be decoded
\* during TableIter::next, the call returns None: the scan is over and no
\* further row is returned.
FailedReadsEndTheScan ==
    (status # "idle" /\ last.kind \in {"err", "panic"}) => status = "done"

\* The levels of a tree, and the most frames its scan stacks up: a frame
\* for the root; under an internal page one more for the subtree of a
\* cell's left child, while the rightmost child's subtree takes the place
\* of its parent's frame.
RECURSIVE TreeHeight(_)
TreeHeight(t) ==
    IF t.kids = <<>> THEN 1
    ELSE 1 + TreeHeight(
                 CHOOSE k \in Range(t.kids) :
                     \A j \in Range(t.kids) : TreeHeight(j) <= TreeHeight(k))

RECURSIVE TreeScanDepth(_)
TreeScanDepth(t) ==
    IF t.kids = <<>> THEN 1
    ELSE LET ds == {1 + TreeScanDepth(t.kids[i]) :
                       i \in 1..(Len(t.kids) - 1)}
                       \cup {TreeScanDepth(t.kids[Len(t.kids)])}
         IN  CHOOSE d \in ds : \A e \in ds : e <= d

\* C19: in the scan of a well-formed tree the stack never holds more
\* frames than the tree has levels; a finished scan has stacked up one
\* frame per left-child descent on the deepest such path and none for a
\* rightmost child, so that a root with a cell over leaves comes to two
\* frames and no more.
StackDepthStaysWithinHeight ==
    disk.count_off = 0 =>
        /\ Len(stack) <= peak
        /\ peak <= TreeHeight(disk.tree)
        /\ status = "done" => peak = TreeScanDepth(disk.tree)

\* C19 (witness): the finished scan of a root with a cell over two
\* leaves, which stacked up two frames.
StackDepthStaysWithinHeightWitness ==
    /\ status = "done"
    /\ disk.count_off = 0
    /\ TreeHeight(disk.tree) = 2
    /\ Len(disk.tree.kids) >= 2
    /\ peak = 2
    /\ yielded # <<>>

\* C23: in a scan, a frame on an internal page has an index of at most the
\* page's cell count, so that next never takes the arm that pops the frame
\* of an internal page: such a frame leaves the stack only when the frame
\* of the page's rightmost child takes its place.
InternalFramesAreReplacedNotPopped ==
    /\ "pop" \notin arms
    /\ \A i \in DOMAIN stack :
          \A p \in DOMAIN DiskLayout(disk) \cap {stack[i].page_num} :
              ~DiskLayout(disk)[p].leaf =>
                  stack[i].idx_in_page <= Len(DiskLayout(disk)[p].cells)

\* C23 (witness): a scan that has replaced the frame of an internal page
\* by that of its rightmost child and stands on a leaf under the last
\* cell of an internal page.
InternalFramesAreReplacedNotPoppedWitness ==
    /\ status = "live"
    /\ {"left", "rightmost"} \subseteq arms
    /\ Len(stack) >= 2
    /\ \E i \in DOMAIN stack :
          \E p \in DOMAIN DiskLayout(disk) \cap {stack[i].page_num} :
              /\ ~DiskLayout(disk)[p].leaf
              /\ Len(DiskLayout(disk)[p].cells) >= 1
              /\ stack[i].idx_in_page = Len(DiskLayout(disk)[p].cells)

\* The leaf cells of the tree that the scan has not returned yet.
RowsLeft == Cardinality(LeafCellsOf(disk)) - Len(yielded)

\* C20: the scan of a well-formed tree comes to an end. Every call of next
\* returns, with a row or with None; a call that returns a row leaves
\* fewer leaf cells to come than there were, so that after finitely many
\* calls next returns None, the stack being empty; and from then on the
\* stack stays empty and every further call returns None.
ScanComesToAnEnd ==
    [][ disk.count_off = 0 =>
          /\ status = "live" =>
                /\ status' \in {"live", "done"}
                /\ status' = "live" => (0 <= RowsLeft' /\ RowsLeft' < RowsLeft)
                /\ status' = "done" => stack' = <<>>
          /\ status = "done" =>
                /\ status' = "done"
                /\ stack' = <<>>
                /\ yielded' = yielded
      ]_vars

---------------------------------------------------------------------------
(* Specification SpecSchema: a database is opened on a file whose schema   *)
(* table names tables (and indexes); the schema reader is run over it, or  *)
(* a table is looked up by name with TableIter::new and scanned.           *)

\* The bound of the schema table's tree, in pages.
MaxSchemaPages == 3

SchemaDisks ==
    {[tree |-> t, rows |-> r, extra |-> "none", count_off |-> 0] :
        t \in UNION {Trees(n) : n \in 1..MaxSchemaPages},
        r \in SchemaRowKinds}

\* The names looked up: the schema table's two names, "t1", "t2", "zz".
LookupNames ==
    {SqliteSchemaName, SqliteMasterName, <<116, 49>>, <<116, 50>>,
     <<122, 122>>}

InitSchema ==
    /\ disk \in SchemaDisks
    /\ file = FileOf(disk)
    /\ fpos = 0
    /\ opened = "no"
    /\ pager_header = <<>>
    /\ page_cache = <<>>
    /\ last = NoCall
    /\ stack = <<>>
    /\ yielded = <<>>
    /\ peak = 0
    /\ arms = {}
    /\ status = "idle"
    /\ table_name \in LookupNames
    /\ reader = ReaderNone
    /\ stmt = <<>>
    /\ exec = ExecNone
    /\ VarintIdle
    /\ RecordIdle
    /\ CellIdle

\* db.table_root_page_indices_by_name(): the iterator is built, with the
\* TableIter of the schema table inside; nothing is read yet.
SchemaReaderNew ==
    /\ opened = "ok"
    /\ status = "idle"
    /\ reader.st = "none"
    /\ reader' = [st |-> "live", first |-> TRUE,
                  stack |-> <<[page_num |-> 1, idx_in_page |-> 0]>>,
                  out |-> <<>>]
    /\ UNCHANGED <<cellVars, pagerVars, stack, yielded, peak, arms, status, table_name,
                   stmt, exec, varintVars, recordVars>>

\* The state after a next() of the schema reader that came to r.
SchemaReaderReturns(r) ==
    /\ reader' = [st    |-> CASE r.kind = "some" -> "live"
                              [] r.kind = "none" -> "done"
                              [] OTHER -> "panic",
                  first |-> r.first,
                  stack |-> r.stack,
                  out   |-> IF r.kind = "some"
                            THEN Append(reader.out,
                                        [name |-> r.entry.name,
                                         root |-> r.entry.root])
                            ELSE reader.out]
    /\ page_cache' = r.entries
    /\ fpos' = r.pos
    /\ last' = r.call

\* next() on the schema reader
SchemaReaderNext ==
    /\ reader.st = "live"
    /\ SchemaReaderReturns(
           SchemaIter_next(file, fpos, pager_header, page_cache,
                           reader.first, reader.stack, last))
    /\ UNCHANGED <<cellVars, disk, file, opened, pager_header, stack, yielded, peak, arms,
                   status, table_name, stmt, exec, varintVars, recordVars>>

NextSchema ==
    \/ PagerNew
    \/ SchemaReaderNew
    \/ SchemaReaderNext
    \/ TableIterNew
    \/ TableIterNext

SpecSchema == InitSchema /\ [][NextSchema]_vars

\* The tables the schema table of the file names, by the format: row k of
\* the schema table, when it is a "table" row, names table t<k>, rooted at
\* the k-th page behind the schema table's tree.
RECURSIVE FormatSchemaRows(_, _)
FormatSchemaRows(dk, k) ==
    IF k = 0 THEN <<>>
    ELSE FormatSchemaRows(dk, k - 1)
             \o (IF RowNamesTable(dk.rows, k)
                 THEN <<[name |-> <<116, 48 + k>>,
                         root |-> TreePages(dk.tree) + k]>>
                 ELSE <<>>)

FormatSchemaEntries(dk) ==
    <<[name |-> SqliteSchemaName, root |-> 1]>>
        \o FormatSchemaRows(dk, TreeRows(dk.tree))

\* C14: the schema reader does not fail; what it has yielded is always an
\* initial part of: ("sqlite_schema", 1), then for each row of the schema
\* table whose first column is "table", in scan order, the pair of its
\* third and fourth column; and when it has returned None it has yielded
\* all of that.
SchemaReaderListsTheTables ==
    /\ reader.st # "panic"
    /\ Len(reader.out) <= Len(FormatSchemaEntries(disk))
    /\ reader.out = Take(FormatSchemaEntries(disk), Len(reader.out))
    /\ reader.st = "done" => reader.out = FormatSchemaEntries(disk)

\* C15: TableIter::new gives an iterator at page 1 for "sqlite_schema" and
\* "sqlite_master", reading nothing; an iterator at the listed root page
\* for another name that the schema table lists; and its unknown-table
\* error, with no iterator, for a name that is not listed.
TableIterStartsAtTheListedRoot ==
    [][ (status = "idle" /\ status' # "idle") =>
          IF table_name \in {SqliteSchemaName, SqliteMasterName}
          THEN /\ status' = "live"
               /\ stack' = <<[page_num |-> 1, idx_in_page |-> 0]>>
               /\ page_cache' = page_cache
               /\ fpos' = fpos
               /\ last' = last
          ELSE IF \E e \in Range(FormatSchemaEntries(disk)) :
                     e.name = table_name
          THEN /\ status' = "live"
               /\ \E e \in Range(FormatSchemaEntries(disk)) :
                     /\ e.name = table_name
                     /\ stack' = <<[page_num |-> e.root, idx_in_page |-> 0]>>
          ELSE /\ status' = "unknown"
               /\ stack' = <<>>
      ]_vars

---------------------------------------------------------------------------
(* Specification SpecExec: execute_statement is run on an open database    *)
(* with a statement and a callback that returns Ok or an Err as it         *)
(* pleases.                                                                *)

\* SELECT * FROM <table> for the schema table, "t1" and "zz".
ScanStatements ==
    {PlainSelect(n) : n \in {SqliteSchemaName, <<116, 49>>, <<122, 122>>}}

\* Statements of other shapes: SELECT * FROM sqlite_schema with one more
\* clause, another projection or another FROM, a query that is no SELECT
\* (a set operation) and a statement that is no query.
OtherStatements ==
    LET plain == PlainSelect(SqliteSchemaName)
        tbl == PlainTable(SqliteSchemaName)
    IN  {[plain EXCEPT ![f] = TRUE] : f \in SelectOptionFields \cup {"limit"}}
        \cup {[plain EXCEPT ![f] = <<"x">>] :
                 f \in SelectListFields \cup {"group_by", "order_by"}}
        \cup {[plain EXCEPT !.projection = p] :
                 p \in {<<>>, <<"Wildcard", "Wildcard">>, <<"UnnamedExpr">>,
                        <<"WildcardWithOptions">>}}
        \cup {[plain EXCEPT !.from = fr] :
                 fr \in {<<>>, <<tbl, tbl>>,
                         <<[tbl EXCEPT !.relation = "Derived"]>>,
                         <<[tbl EXCEPT !.name = <<<<109>>, <<116, 49>>>>]>>}}
        \cup {[plain EXCEPT !.from = <<[tbl EXCEPT ![f] = TRUE]>>] :
                 f \in TableOptionFields}
        \cup {[plain EXCEPT !.from = <<[tbl EXCEPT ![f] = <<"x">>]>>] :
                 f \in TableListFields}
        \cup {[plain EXCEPT !.body = "SetOperation"],
              [plain EXCEPT !.statement = "Insert"]}

\* The database the statements of other shapes are run on: one schema
\* row on the root page.
OtherDisk ==
    [tree |-> [n |-> 1, kids |-> <<>>], rows |-> "schema", extra |-> "none",
     count_off |-> 0]

InitExec ==
    /\ \/ disk \in SchemaDisks /\ stmt \in ScanStatements
       \/ disk = OtherDisk /\ stmt \in OtherStatements
    /\ file = FileOf(disk)
    /\ fpos = 0
    /\ opened = "no"
    /\ pager_header = <<>>
    /\ page_cache = <<>>
    /\ last = NoCall
    /\ stack = <<>>
    /\ yielded = <<>>
    /\ peak = 0
    /\ arms = {}
    /\ status = "idle"
    /\ table_name = <<>>
    /\ reader = ReaderNone
    /\ exec = ExecNone
    /\ VarintIdle
    /\ RecordIdle
    /\ CellIdle

\* The for loop once TableIter::next has come to r: the callback is
\* entered with the row, or the loop is over and execute_statement returns
\* Ok; ex is execute_statement's record so far.
ExecNextReturns(ex, r) ==
    /\ TableIterReturns(r)
    /\ exec' = CASE r.kind = "some" ->
                       [ex EXCEPT !.st = "callback",
                                  !.called = Append(@, r.row)]
                  [] r.kind = "none" -> [ex EXCEPT !.st = "ok"]
                  [] OTHER -> [ex EXCEPT !.st = "panic"]

\* `TableIter::new(self, table_name)?` once it has come to n, and with
\* an iterator the loop's first next().
ExecNewReturns(n) ==
    IF n.kind = "ok"
    THEN ExecNextReturns(
             exec,
             TableIter_next(file, n.pos, pager_header, n.entries, n.stack,
                            n.call))
    ELSE /\ TableIterNewReturns(n)
         /\ yielded' = yielded
         /\ exec' = IF n.kind = "err"
                    THEN [exec EXCEPT !.st = "err", !.error = "unknown table"]
                    ELSE [exec EXCEPT !.st = "panic"]

\* execute_statement(statement, callback), up to its return or to the
\* first time it enters the callback.
ExecMatched(sh) ==
    IF sh.ok
    THEN /\ table_name' = sh.table_name
         /\ ExecNewReturns(
                TableIter_new(file, fpos, pager_header, page_cache,
                              sh.table_name, last))
    ELSE /\ exec' = [exec EXCEPT !.st = "err", !.error = sh.error]
         /\ UNCHANGED <<cellVars, table_name, stack, yielded, peak, arms, status,
                        page_cache, fpos, last>>

ExecuteStatement ==
    /\ opened = "ok"
    /\ exec.st = "none"
    /\ status = "idle"
    /\ reader.st = "none"
    /\ ExecMatched(execute_statement_match(stmt))
    /\ UNCHANGED <<cellVars, disk, file, opened, pager_header, reader, stmt,
                   varintVars, recordVars>>

\* The callback returns, Ok or an Err, and execute_statement runs on to
\* its return or to the next time it enters the callback.
CallbackReturns ==
    /\ exec.st = "callback"
    /\ \E cb_ok \in BOOLEAN :
          IF execute_statement_callback(cb_ok)
          THEN ExecNextReturns(
                   [exec EXCEPT !.failed_at =
                        IF cb_ok THEN @ ELSE Len(exec.called)],
                   TableIter_next(file, fpos, pager_header, page_cache,
                                  stack, last))
          ELSE /\ exec' = [exec EXCEPT !.st = "err", !.error = "callback",
                                       !.failed_at = Len(exec.called)]
               /\ UNCHANGED <<cellVars, stack, yielded, peak, arms, status, page_cache,
                              fpos, last>>
    /\ UNCHANGED <<cellVars, disk, file, opened, pager_header, table_name, reader,
                   stmt, varintVars, recordVars>>

NextExec == PagerNew \/ ExecuteStatement \/ CallbackReturns

SpecExec == InitExec /\ [][NextExec]_vars

\* C16: the callback is invoked with the rows the iterator returns, once
\* each and in the iterator's order, as the record decoder's values of the
\* row; once an invocation has returned an Err, execute_statement has
\* returned that Err and that invocation stays the last one; and
\* execute_statement returns Ok only when the iterator has ended.
CallbackSeesEachRowOnce ==
    /\ Len(exec.called) = Len(yielded)
    /\ \A i \in DOMAIN yielded : exec.called[i] = yielded[i].row
    /\ exec.failed_at # 0 =>
          /\ exec.st = "err"
          /\ exec.error = "callback"
          /\ Len(exec.called) = exec.failed_at
    /\ exec.st = "ok" => status = "done"

\* C16 (witness): the callback returned an Err on the second row of a
\* table that holds more rows than two.
CallbackSeesEachRowOnceWitness ==
    /\ exec.st = "err"
    /\ exec.error = "callback"
    /\ exec.failed_at = 2
    /\ Len(exec.called) = 2
    /\ TreeRows(disk.tree) > 2

\* The errors execute_statement leaves by on a statement it does not run.
UnimplementedErrors ==
    {"Unimplemented command", "Unimplemented SELECT arguments",
     "Unimplemented SELECT arguments 2", "Unimplemented projection",
     "Unimplemented FROM target"}

\* C17: execute_statement scans a table only for SELECT * FROM <one
\* table> with nothing else to it; for every other statement it returns
\* an unimplemented error, having read nothing and never having invoked
\* the callback.
OnlyPlainSelectStarIsRun ==
    exec.st # "none" =>
        IF \E n \in Range(stmt.from) : stmt = PlainSelect(n.name[1])
        THEN ~(exec.st = "err" /\ exec.error \in UnimplementedErrors)
        ELSE /\ exec.st = "err"
             /\ exec.error \in UnimplementedErrors
             /\ exec.called = <<>>
             /\ status = "idle"
             /\ last = NoCall

---------------------------------------------------------------------------
(* Specification SpecRecord: Record::parse, type_iter() and value_iter()   *)
(* applied to bounded payloads                                             *)

\* Bounds of the payloads: the number of type codes and of body bytes.
MaxCols == 2
MaxBody == 8

\* Type codes: every column type in the first column (129 starts a
\* two-byte varint), a few of them in the columns after it.
FirstCodes == {0, 1, 2, 3, 4, 5, 6, 7, 8, 9, 10, 11, 12, 13, 14, 17, 129}
NextCodes == {0, 3, 14, 17, 129}

CodeSeqs ==
    {<<>>} \cup {<<c>> \o t : c \in FirstCodes,
                               t \in SeqsUpTo(NextCodes, MaxCols - 1)}

\* Bodies: 0xFF throughout, or counting up from 0x7E (7E 7F 80 81 ..).
BodyPattern(base, step, n) == [i \in 1..n |-> (base + step * (i - 1)) % 256]

Bodies ==
    {BodyPattern(b[1], b[2], n) : b \in {<<255, 0>>, <<126, 1>>},
                                  n \in 0..MaxBody}

\* Payloads: a one-byte header length (0, exact, one too long), the
\* type codes, the body.
InitRecord ==
    /\ \E c \in CodeSeqs, b \in Bodies :
          \E hl \in {0, Len(c) + 1, Len(c) + 2} : rin = <<hl>> \o c \o b
    /\ rrec = <<>>
    /\ tit = IterNone
    /\ vit = IterNone
    /\ VarintIdle
    /\ PagerIdle
    /\ IterIdle
    /\ CellIdle

RecordParse ==
    /\ rrec = <<>>
    /\ rrec' = <<Record_parse(rin)>>
    /\ UNCHANGED <<cellVars, rin, tit, vit, varintVars, pagerVars, iterVars>>

\* record.type_iter()
TypeIterNew ==
    /\ rrec # <<>> /\ rrec[1].ok
    /\ tit.st = "none"
    /\ tit' = [st |-> "live", header |-> HeaderTypesIter_new(rrec[1].header),
               body |-> <<>>, out |-> <<>>]
    /\ UNCHANGED <<cellVars, rin, rrec, vit, varintVars, pagerVars, iterVars>>

\* next() on the type iterator
TypeIterNext ==
    /\ tit.st = "live"
    /\ LET n == HeaderTypesIter_next(tit.header)
       IN  tit' = IF n.kind = "some"
                  THEN [tit EXCEPT !.header = n.header,
                                   !.out = Append(@, n.ty)]
                  ELSE [tit EXCEPT !.st = IF n.kind = "none" THEN "done"
                                                             ELSE n.kind]
    /\ UNCHANGED <<cellVars, rin, rrec, vit, varintVars, pagerVars, iterVars>>

\* record.value_iter()
ValueIterNew ==
    /\ rrec # <<>> /\ rrec[1].ok
    /\ vit.st = "none"
    /\ vit' = [st |-> "live", header |-> HeaderTypesIter_new(rrec[1].header),
               body |-> rrec[1].body, out |-> <<>>]
    /\ UNCHANGED <<cellVars, rin, rrec, tit, varintVars, pagerVars, iterVars>>

\* next() on the value iterator
ValueIterNext ==
    /\ vit.st = "live"
    /\ LET n == RecordValueIter_next(vit.header, vit.body)
       IN  vit' = IF n.kind = "some"
                  THEN [vit EXCEPT !.header = n.header, !.body = n.body,
                                   !.out = Append(@, n.value)]
                  ELSE [vit EXCEPT !.st = IF n.kind = "none" THEN "done"
                                                             ELSE n.kind]
    /\ UNCHANGED <<cellVars, rin, rrec, tit, varintVars, pagerVars, iterVars>>

NextRecord ==
    \/ RecordParse
    \/ TypeIterNew
    \/ TypeIterNext
    \/ ValueIterNew
    \/ ValueIterNext

SpecRecord == InitRecord /\ [][NextRecord]_vars

\* The types of the values the value iterator has yielded so far.
ValueTypes == [i \in 1..Len(vit.out) |-> Value_ty(vit.out[i])]

\* C8: the record decoder sign-extends int24 and int48 body values from
\* their declared widths: every I24 (I48) value that value_iter yields is
\* the two's-complement widening to i32 (i64) of the 3 (6) body bytes it
\* was read from, so FF FF FF is -1.
IntsAreSignExtended ==
    \A i \in 1..Len(vit.out) :
        LET off == FormatWidthSum(ValueTypes, i - 1)
            body == rrec[1].body
        IN  /\ vit.out[i].tag = "I24" =>
                 vit.out[i].v = SignExtend(SubSeq(body, off + 1, off + 3), 4)
            /\ vit.out[i].tag = "I48" =>
                 vit.out[i].v = SignExtend(SubSeq(body, off + 1, off + 6), 8)

\* C9: for a record Record::parse accepts, value_iter yields its values in
\* the order of the types type_iter yields, the i-th value of the i-th type
\* (blob and string lengths included); once type_iter has ended, value_iter
\* has yielded no more values than there are types, ends with exactly as
\* many, and fails only when the body is too short for the types.
ValuesMatchTypes ==
    /\ \A i \in 1..Len(vit.out) :
           i <= Len(tit.out) => Value_ty(vit.out[i]) = tit.out[i]
    /\ tit.st = "done" =>
           /\ Len(vit.out) <= Len(tit.out)
           /\ vit.st = "done" => Len(vit.out) = Len(tit.out)
           /\ vit.st # "panic"
           /\ vit.st = "panic_body" =>
                  FormatWidthSum(tit.out, Len(tit.out)) > Len(rrec[1].body)

\* C9's case: both iterators have run to their end over a record of an
\* int24 and a two-byte string.
ValuesMatchTypesWitness ==
    /\ tit.st = "done" /\ vit.st = "done"
    /\ Len(vit.out) = 2
    /\ vit.out[1].tag = "I24"
    /\ vit.out[2].tag = "String" /\ Len(vit.out[2].v) = 2

\* C10: when the body holds fewer bytes than the type codes require,
\* decoding the values ends in an error handed to the caller: a value
\* iterator that has stopped in front of a type wider than what is left of
\* the body has stopped with an error outcome.
TruncatedBodyIsAnError ==
    LET t == HeaderTypesIter_next(vit.header)
    IN  (/\ vit.st \notin {"none", "live"}
         /\ t.kind = "some"
         /\ FormatWidth(t.ty) > Len(vit.body)) => vit.st = "error"

---------------------------------------------------------------------------
(* Specification SpecVarint: parse_varint applied to bounded buffers       *)

\* Bounds of the buffers: continuation bytes in front, then a tail.
MaxVarintPrefix == 9
MaxVarintTail == 2

VarintContBytes == {129, 255}
VarintTailBytes == {0, 1, 127, 128}

InitVarint ==
    /\ \E p \in SeqsUpTo(VarintContBytes, MaxVarintPrefix),
          t \in SeqsUpTo(VarintTailBytes, MaxVarintTail) : vin = p \o t
    /\ vout = <<>>
    /\ RecordIdle
    /\ CellIdle
    /\ PagerIdle
    /\ IterIdle

VarintDecode ==
    /\ vout = <<>>
    /\ vout' = <<parse_varint(vin)>>
    /\ UNCHANGED <<cellVars, vin, recordVars, pagerVars, iterVars>>

NextVarint == VarintDecode

SpecVarint == InitVarint /\ [][NextVarint]_vars

\* C6: parse_varint returns the format's big-endian value: whenever the
\* decoder succeeds, its result is the value the file format gives to the
\* varint at the start of the buffer (so 0x81 0x00 decodes to 128).
VarintDecodesFormatValue ==
    \A i \in 1..Len(vout) :
        vout[i].ok => vout[i].value = FormatVarintValue(vin)

\* C7: on success parse_varint advances the cursor by exactly the length of
\* the varint (k bytes when it ends at its k-th byte, nine when the first
\* eight all have the high bit set), and it fails exactly on a buffer that
\* ends inside the varint.
VarintAdvancesByLength ==
    \A i \in 1..Len(vout) :
        LET n == FormatVarintLen(vin)
        IN  /\ vout[i].ok <=> n > 0
            /\ vout[i].ok => vout[i].rest = Drop(vin, n)

---------------------------------------------------------------------------
(* Specification SpecCells: Page::new applied to page buffers whose cell   *)
(* pointers and cell-content start are right or not, and the cells() of    *)
(* the pages it accepts read to the end, in a build with overflow checks   *)
(* and in one without.                                                     *)

\* The bound of the cell-pointer arrays.
MaxCellPointers == 2

\* The offsets a cell pointer or the content start is given: of the cell
\* at the end of the page ("a"), of the cell in front of it ("b"), 0, the
\* end of the page header ("low"), the greatest 16-bit offset ("top").
CellPointerKinds == {"a", "b", "zero", "top"}
CellStartKinds == {"b", "a", "zero", "low"}

\* The pages: table leaves and table-internal pages of the smallest and of
\* the greatest page size, two cells at their end; a cell count that is
\* the length of the pointer array or more than the page can hold.
CellPages ==
    {[kind |-> k, big |-> g, start |-> s, over |-> o, ptrs |-> p] :
        k \in {"leaf", "internal"}, g \in BOOLEAN, s \in CellStartKinds,
        o \in BOOLEAN, p \in SeqsUpTo(CellPointerKinds, MaxCellPointers)}

CellPageSize(d) == IF d.big THEN Pow2(16) ELSE FilePageSize

\* The two cells of the page, as bytes.
FormatCellOf(d, which) ==
    IF d.kind = "leaf"
    THEN FormatLeafCell(IF which = "a" THEN 2 ELSE 1,
                        FormatRecord(<<1>>, <<IF which = "a" THEN 7 ELSE 5>>))
    ELSE FormatInternalCell(IF which = "a" THEN 3 ELSE 2,
                            IF which = "a" THEN 2 ELSE 1)

\* The offset in the page that a pointer or start of that kind holds.
FormatCellOffset(d, what) ==
    IF what = "a" THEN CellPageSize(d) - Len(FormatCellOf(d, "a"))
    ELSE IF what = "b"
    THEN CellPageSize(d) - Len(FormatCellOf(d, "a"))
             - Len(FormatCellOf(d, "b"))
    ELSE IF what = "low" THEN BTREE_PAGE_HEADER_SIZE
    ELSE IF what = "top" THEN 65535
    ELSE 0

\* The cell count of the page header.
FormatCellCount(d) == IF d.over THEN 300 ELSE Len(d.ptrs)

\* The bytes of the page.
FormatCellPage(d) ==
    LET head == <<IF d.kind = "leaf" THEN 13 ELSE TableInternalHeaderByte,
                  0, 0>>
                \o BigEndian(FormatCellCount(d), 2)
                \o BigEndian(FormatCellOffset(d, d.start), 2) \o <<0>>
                \o (IF d.kind = "leaf" THEN <<>> ELSE BigEndian(9, 4))
                \o Concat([i \in 1..Len(d.ptrs) |->
                              BigEndian(FormatCellOffset(d, d.ptrs[i]), 2)])
    IN  head \o Zeros(FormatCellOffset(d, "b") - Len(head))
             \o FormatCellOf(d, "b") \o FormatCellOf(d, "a")

InitCells ==
    /\ cpage \in {d \in CellPages : d.over => ~d.big}
    /\ citer = CellIterNone
    /\ VarintIdle
    /\ RecordIdle
    /\ PagerIdle
    /\ IterIdle

\* Page::new returns: its Err, or the page, whose cells() is then called.
PageNewReturns(pg) ==
    /\ citer' = [citer EXCEPT
                    !.st = IF pg.kind \in {"err", "panic"} THEN pg.kind
                           ELSE "live"]
    /\ UNCHANGED <<cpage, varintVars, recordVars, pagerVars, iterVars>>

\* Page::new on the buffer.
PageNew ==
    /\ citer.st = "none"
    /\ \E pg \in {Page_parse_checked(FormatCellPage(cpage))} :
          PageNewReturns(pg)

\* CellIter::next returns None or a cell, or panics.
CellIterReturns(c) ==
    /\ citer' = [st  |-> IF c.kind = "some" THEN "live"
                         ELSE IF c.kind = "none" THEN "done" ELSE "panic",
                 idx |-> IF c.kind = "none" THEN citer.idx ELSE citer.idx + 1,
                 out |-> IF c.kind = "none" THEN citer.out
                         ELSE Append(citer.out, c)]
    /\ UNCHANGED <<cpage, varintVars, recordVars, pagerVars, iterVars>>

\* A call of CellIter::next on the cells() of the page, in a build with
\* overflow checks or in one without.
CellIterNext ==
    /\ citer.st = "live"
    /\ \E overflow_checks \in BOOLEAN :
          \E c \in {CellIter_next_in(
                        Page_parse_checked(FormatCellPage(cpage)),
                        citer.idx, overflow_checks)} :
              CellIterReturns(c)

NextCells == PageNew \/ CellIterNext

SpecCells == InitCells /\ [][NextCells]_vars

\* The content start of the page: the header's word, 0 standing for 65536.
FormatCellStart(d) ==
    IF FormatCellOffset(d, d.start) = 0 THEN 65536
    ELSE FormatCellOffset(d, d.start)

\* What decoding the cell placed at an offset of that kind gives.
FormatCellAt(d, what) ==
    IF d.kind = "leaf"
    THEN BTreeTableLeaf_parse_cell(FormatCellOf(d, what)).cell
    ELSE BTreeTableInternal_Cell_parse(FormatCellOf(d, what)).cell

\* C21: a cell is decoded at the offset in the page that its cell pointer
\* holds, and a cell pointer below the content start of the page (a start
\* of 0 being 65536) makes the decoder fail: the 16-bit subtraction of the
\* start from the pointer never wraps to a place where a cell is decoded.
CellsAreDecodedAtTheirPointers ==
    \A i \in DOMAIN citer.out :
        /\ FormatCellOffset(cpage, cpage.ptrs[i]) < FormatCellStart(cpage)
               => citer.out[i].kind = "panic"
        /\ citer.out[i].kind = "some"
               => /\ cpage.ptrs[i] \in {"a", "b"}
                  /\ citer.out[i].cell = FormatCellAt(cpage, cpage.ptrs[i])
        /\ (/\ cpage.ptrs[i] \in {"a", "b"}
            /\ FormatCellOffset(cpage, cpage.ptrs[i])
                   >= FormatCellStart(cpage))
               => citer.out[i].kind = "some"

\* C21 (witness): cells() of a page whose content starts at its last cell
\* has decoded that cell and has failed on the pointer to the cell in
\* front of it.
CellsAreDecodedAtTheirPointersWitness ==
    /\ cpage # <<>>
    /\ cpage.start = "a"
    /\ cpage.ptrs = <<"a", "b">>
    /\ citer.st = "panic"
    /\ Len(citer.out) = 2
    /\ citer.out[1].kind = "some"
    /\ citer.out[2].kind = "panic"

\* C22: a page buffer that Page::new accepts has its structure inside the
\* buffer: the content start, and every cell pointer with the cell it
\* points to; so cells() of the page returns as many cells as the header
\* counts and does not panic.
ValidatedPagesReadToTheEnd ==
    citer.st \in {"live", "done", "panic"} =>
        /\ FormatCellStart(cpage) <= CellPageSize(cpage)
        /\ citer.st # "panic"
        /\ citer.st = "done" => Len(citer.out) = FormatCellCount(cpage)
        /\ citer.st \in {"done", "panic"} =>
               \A i \in DOMAIN cpage.ptrs :
                   /\ cpage.ptrs[i] \in {"a", "b"}
                   /\ FormatCellOffset(cpage, cpage.ptrs[i])
                          >= FormatCellStart(cpage)

====
